---- MODULE Spec2Model ----
(***************************************************************************)
(* LevelKit-Text: the interpreter core of the text adventure engine        *)
(* (levelkit_text/engine/core.py GameApp), its progression curve           *)
(* (levelkit_text/game/xp.py) and the graph validator                      *)
(* (text_adventure/engine/validator.py).                                   *)
(*                                                                         *)
(* Python values are modelled as follows.                                  *)
(*   - None and the empty string are both the empty string: the code only  *)
(*     tests them for truthiness.                                          *)
(*   - A dict is a function whose DOMAIN is the set of keys present.       *)
(*   - A probability is an integer number of percent; a draw of            *)
(*     random.random() is a percent in 0..99.                              *)
(*   - The dialogue text is the set of the tagged lines the handler wrote. *)
(***************************************************************************)
EXTENDS Integers, Sequences, FiniteSets, TLC

VARIABLES
    defaults,                 \* the defaults module handed to GameApp
    stats,                    \* self.stats
    inventory,                \* self.inventory: item id -> count
    equipment,                \* self.equipment: slot -> item id or None
    flags,                    \* self.flags: flag -> int
    timed_flags,              \* self.timed_flags: flag -> rooms remaining
    alert_level,              \* self.alert_level
    current_room_id,          \* self.current_room_id
    current_battle,           \* self.current_battle
    option_handlers,          \* self.option_handlers with each button's enabled state
    pending_room_transition,  \* self._pending_room_transition
    unique_loot_awards,       \* self._unique_loot_awards
    battle_repeat_tracker,    \* self.battle_repeat_tracker
    mana_regen_reserve,       \* self._mana_regen_reserve, in hundredths of a point
    dialogue,                 \* lines written by the last handler
    history,                  \* observation of the run (not program state)
    probe                     \* call record of the function-level specifications

vars == << defaults, stats, inventory, equipment, flags, timed_flags, alert_level,
           current_room_id, current_battle, option_handlers, pending_room_transition,
           unique_loot_awards, battle_repeat_tracker, mana_regen_reserve, dialogue,
           history, probe >>

----------------------------------------------------------------------------
(* Bounds of the model *)

\* largest count of one item the explored runs collect
MaxCount == 2
\* largest absolute flag value the explored runs write
MaxFlag == 2
\* largest alert level the explored runs reach
MaxAlert == 2
\* largest timer_rooms value of the timed-flag options
MaxTimer == 3
\* number of battle victories the explored runs collect
MaxVictories == 2
\* largest absolute attack and defence the equipment runs start from
MaxStat == 2
\* largest total xp the progression runs start from
MaxXp == 1100

----------------------------------------------------------------------------
(* Python helpers *)

None == ""

EmptyDict == << >>

Max(a, b) == IF a >= b THEN a ELSE b

Min(a, b) == IF a <= b THEN a ELSE b

\* dict.get(k, default)
Get(d, k, default) == IF k \in DOMAIN d THEN d[k] ELSE default

\* d[k] = v
Put(d, k, v) == [x \in (DOMAIN d) \cup {k} |-> IF x = k THEN v ELSE d[x]]

\* d.pop(k, None), the dict afterwards
Pop(d, k) == [x \in (DOMAIN d) \ {k} |-> d[x]]

\* {**base, **over}
Merge(base, over) ==
    [x \in (DOMAIN base) \cup (DOMAIN over) |-> IF x \in DOMAIN over THEN over[x] ELSE base[x]]

\* the elements of a sequence
Range(seq) == { seq[i] : i \in DOMAIN seq }

\* Counter(items)[x]
CountOf(seq, x) == Cardinality({ i \in DOMAIN seq : seq[i] = x })

----------------------------------------------------------------------------
(* Content model: engine/models.py *)

StatNames == {"hp", "max_hp", "mana", "max_mana", "stamina", "attack", "defence", "xp"}

\* OptionSpec with the dataclass defaults; battle_repeat_limit None is 0
OptionDefaults ==
    [label |-> "", to |-> None, battle_id |-> None, hint |-> None,
     require_expr |-> [not_a_dict |-> TRUE], gain_items |-> << >>,
     requires_flag |-> None, requires_not_flag |-> None, set_flag |-> None,
     clear_flag |-> None, effects |-> EmptyDict, loot_table |-> << >>, loot_rolls |-> 1,
     battle_repeat_limit |-> 0, battle_repeat_message |-> None, battle_repeat_key |-> None]

OptionSpec(fields) == Merge(OptionDefaults, fields)

\* BattleAction with the dataclass defaults; hit_chance in percent
BattleActionDefaults ==
    [kind |-> "attack", label |-> "", bonus |-> 0, variance |-> 2, stat |-> None, gte |-> 0,
     success_damage |-> 0, fail_damage |-> 0, success_heal |-> 0, fail_heal |-> 0,
     mana_cost |-> 0, requires_weapon_type |-> None, requires_weapon_id |-> None,
     ammo_item |-> None, ammo_cost |-> 1, hit_chance |-> 100, show_if_unavailable |-> FALSE]

BattleAction(fields) == Merge(BattleActionDefaults, fields)

\* BattleSpec with the dataclass defaults
BattleSpecDefaults ==
    [id |-> "", enemy |-> [id |-> "", hp |-> 0, attack |-> 0, defence |-> 0, loot |-> << >>],
     actions |-> << >>, victory_to |-> None, defeat_to |-> None,
     loot_table |-> << >>, loot_rolls |-> 1]

BattleSpec(fields) == Merge(BattleSpecDefaults, fields)

----------------------------------------------------------------------------
(* The template content: levels/*.py, battle_loops/goblin_trial.py, game/*.py *)

start_room ==
    [id |-> "start",
     options |-> << OptionSpec([label |-> "Go left toward the practice alcove", to |-> "armory"]),
                    OptionSpec([label |-> "Go right toward the flickering light",
                                to |-> "goblin_hall"]) >>]

armory_room ==
    [id |-> "armory",
     options |-> << OptionSpec([label |-> "Take the training blade",
                                gain_items |-> << "Wooden Bow" >>,
                                set_flag |-> "weapon_taken",
                                requires_not_flag |-> "weapon_taken",
                                hint |-> "Equips automatically",
                                effects |-> [equip_item |-> << "wooden_bow" >>]]),
                    OptionSpec([label |-> "Return to the entrance", to |-> "start"]) >>]

goblin_hall_room ==
    [id |-> "goblin_hall",
     options |-> << OptionSpec([label |-> "Face the goblin", battle_id |-> "goblin_trial"]),
                    OptionSpec([label |-> "Retreat to the entrance", to |-> "start"]) >>]

goblin_victory_room ==
    [id |-> "goblin_victory",
     options |-> << OptionSpec([label |-> "Return to the entrance", to |-> "start"]) >>]

goblin_defeat_room ==
    [id |-> "goblin_defeat",
     options |-> << OptionSpec([label |-> "Gather yourself and try again", to |-> "start"]) >>]

goblin_trial ==
    BattleSpec([id |-> "goblin_trial",
                enemy |-> [id |-> "hallway_goblin", hp |-> 10, attack |-> 4, defence |-> 1,
                           loot |-> << >>],
                actions |-> << BattleAction([kind |-> "skill_check", label |-> "Hold your ground",
                                             stat |-> "attack", gte |-> 4,
                                             success_damage |-> 12, fail_damage |-> 999]) >>,
                victory_to |-> "goblin_victory",
                defeat_to |-> "goblin_defeat"])

WEAPON_DEFINITIONS ==
    [training_sword |-> [category |-> "weapon", weapon_type |-> "melee",
                         effects |-> [attack |-> 10]],
     wooden_bow |-> [category |-> "weapon", weapon_type |-> "ranged",
                     effects |-> [attack |-> 8, range |-> 15]]]

\* game/items.py, which the template leaves for the author to fill
BASE_ITEM_DEFINITIONS == EmptyDict

\* game/defaults.py; probabilities and the multiplier in percent, MANA_PER_ROOM in hundredths
TemplateDefaults ==
    [ITEM_DEFINITIONS |-> Merge(BASE_ITEM_DEFINITIONS, WEAPON_DEFINITIONS),
     START_ROOM_ID |-> "start",
     DEFEAT_ROOM_ID |-> "start",
     STARTING_STATS |-> [hp |-> 10, max_hp |-> 10, mana |-> 5, max_mana |-> 5, stamina |-> 5,
                         attack |-> 1, defence |-> 0, xp |-> 0],
     DAMAGE_VARIANCE |-> 2,
     CRIT_CHANCE |-> 0,
     CRIT_MULTIPLIER |-> 150,
     XP_PER_VICTORY |-> 5,
     MANA_PER_ROOM |-> 25]


----------------------------------------------------------------------------
(* Sample content exercising flags, timers and requirements ("lab"), and loot, *)
(* items and a winnable battle ("vault"); built with the same dataclasses      *)

\* one option per timer length: the ward flag is set, made timed, and the room is left
ward_option(n) ==
    OptionSpec([label |-> "Light the ward", to |-> "annex",
                effects |-> [set |-> [ward |-> 1], timer_rooms |-> n]])

lab_room ==
    [id |-> "lab",
     options |-> [n \in 1..MaxTimer |-> ward_option(n)]
                 \o << OptionSpec([label |-> "Enter the annex", to |-> "annex"]) >>]

annex_room ==
    [id |-> "annex",
     options |-> << OptionSpec([label |-> "Return to the lab", to |-> "lab"]),
                    OptionSpec([label |-> "Stoke the furnace",
                                effects |-> [inc |-> [heat |-> 1]]]),
                    OptionSpec([label |-> "Douse the furnace",
                                effects |-> [inc |-> [heat |-> -1]]]),
                    OptionSpec([label |-> "Step into the cell", to |-> "cell"]) >>]

cell_room ==
    [id |-> "cell",
     options |-> << OptionSpec([label |-> "Kindle the torch", set_flag |-> "torch",
                                requires_not_flag |-> "torch",
                                effects |-> [timer_rooms |-> 2]]),
                    OptionSpec([label |-> "Snuff the ward", clear_flag |-> "ward",
                                require_expr |-> [flag |-> "ward"]]),
                    OptionSpec([label |-> "Feed the ward", effects |-> [set |-> [ward |-> 2]],
                                require_expr |-> [all |-> << [flag |-> "ward"],
                                                             [not_flag |-> "torch"] >>]]),
                    OptionSpec([label |-> "Back to the annex", to |-> "annex"]),
                    \* a fifth option, and one that leads to a room no file defines
                    OptionSpec([label |-> "Pry the grate", to |-> "sewer"]) >>]

LabDefaults ==
    [ITEM_DEFINITIONS |-> EmptyDict,
     START_ROOM_ID |-> "lab",
     DEFEAT_ROOM_ID |-> "lab",
     STARTING_STATS |-> [hp |-> 10, max_hp |-> 10, mana |-> 5, max_mana |-> 5, stamina |-> 5,
                         attack |-> 1, defence |-> 0, xp |-> 0],
     DAMAGE_VARIANCE |-> 2,
     CRIT_CHANCE |-> 0,
     CRIT_MULTIPLIER |-> 150,
     XP_PER_VICTORY |-> 5,
     MANA_PER_ROOM |-> 25]

vault_room ==
    [id |-> "vault",
     options |-> << OptionSpec([label |-> "Open the chest",
                                loot_table |-> << [item |-> "gem", chance |-> 50,
                                                   unique |-> TRUE],
                                                  [item |-> "tonic"] >>,
                                loot_rolls |-> 2]),
                    OptionSpec([label |-> "Take the club", gain_items |-> << "club" >>,
                                requires_not_flag |-> "club_taken", set_flag |-> "club_taken",
                                effects |-> [equip_item |-> << "club" >>]]),
                    OptionSpec([label |-> "Fight the rat", battle_id |-> "rat_fight",
                                battle_repeat_limit |-> 2]),
                    OptionSpec([label |-> "Walk into the pit", to |-> "pit"]) >>]

\* a room with no option: only the filler option is offered
pit_room == [id |-> "pit", options |-> << >>]

rat_fight ==
    BattleSpec([id |-> "rat_fight",
                enemy |-> [id |-> "rat", hp |-> 6, attack |-> 3, defence |-> 0,
                           loot |-> << "arrow" >>],
                actions |-> << BattleAction([kind |-> "attack", label |-> "Swing",
                                             variance |-> 0,
                                             requires_weapon_type |-> "melee"]) >>,
                loot_table |-> << [item |-> "ruby", unique |-> TRUE,
                                   unique_key |-> "gem"] >>])

\* the item definitions of the vault: consumables, ammo and weapons with stat effects
VaultItems ==
    [tonic |-> [category |-> "consumable", effects |-> [mana |-> 2]],
     salve |-> [category |-> "consumable", effects |-> [hp |-> 4]],
     arrow |-> [category |-> "ammo", effects |-> EmptyDict],
     club |-> [category |-> "weapon", weapon_type |-> "melee", effects |-> [attack |-> 3]],
     ward_blade |-> [category |-> "weapon", weapon_type |-> "melee",
                     effects |-> [attack |-> 5, defence |-> 1]]]

VaultDefaults ==
    [ITEM_DEFINITIONS |-> VaultItems,
     START_ROOM_ID |-> "vault",
     STARTING_STATS |-> [hp |-> 10, max_hp |-> 10, mana |-> 5, max_mana |-> 5, stamina |-> 5,
                         attack |-> 1, defence |-> 0, xp |-> 0],
     DAMAGE_VARIANCE |-> 0,
     CRIT_CHANCE |-> 0,
     CRIT_MULTIPLIER |-> 150,
     XP_PER_VICTORY |-> 5,
     MANA_PER_ROOM |-> 0]

\* Sample content exercising the combat resolver ("arena"): a cast with a mana cost and
\* a hit chance, a ranged attack that needs a bow and an arrow, may miss and is shown
\* when unavailable, a skill check with a lethal failure, stuns set before the battle, and
\* battles with and without victory_to and defeat_to entered from options with a `to`
camp_room ==
    [id |-> "camp",
     options |-> << OptionSpec([label |-> "Take the bow",
                                gain_items |-> << "wooden_bow", "arrow" >>,
                                requires_not_flag |-> "bow_taken", set_flag |-> "bow_taken",
                                effects |-> [equip_item |-> << "wooden_bow" >>]]),
                    OptionSpec([label |-> "Enter the ring", battle_id |-> "ogre_bout",
                                to |-> "gallery", battle_repeat_limit |-> 1,
                                battle_repeat_key |-> "ring",
                                battle_repeat_message |-> "The ring is empty."]),
                    OptionSpec([label |-> "Walk to the gallery", to |-> "gallery"]) >>]

gallery_room ==
    [id |-> "gallery",
     options |-> << OptionSpec([label |-> "Set a snare", effects |-> [enemy_stunned |-> 1]]),
                    OptionSpec([label |-> "Dig a pit trap", effects |-> [enemy_stunned |-> 2]]),
                    OptionSpec([label |-> "Spar", battle_id |-> "ogre_duel", to |-> "camp"]),
                    OptionSpec([label |-> "Back to camp", to |-> "camp"]) >>]

infirmary_room ==
    [id |-> "infirmary",
     options |-> << OptionSpec([label |-> "Back to camp", to |-> "camp"]) >>]

ogre_bout ==
    BattleSpec([id |-> "ogre_bout",
                enemy |-> [id |-> "ogre", hp |-> 8, attack |-> 5, defence |-> 0,
                           loot |-> << "arrow" >>],
                actions |-> << BattleAction([kind |-> "cast", label |-> "Firebolt",
                                             bonus |-> 1, variance |-> 0, mana_cost |-> 3,
                                             hit_chance |-> 50]),
                               BattleAction([kind |-> "attack", label |-> "Loose an arrow",
                                             variance |-> 0,
                                             requires_weapon_type |-> "ranged",
                                             ammo_item |-> "arrow", hit_chance |-> 50,
                                             show_if_unavailable |-> TRUE]),
                               BattleAction([kind |-> "skill_check", label |-> "Reckless lunge",
                                             stat |-> "attack", gte |-> 5,
                                             success_damage |-> 3,
                                             fail_damage |-> 999]) >>])

\* the same fight with both exits named: victory_to takes precedence over the option's `to`;
\* the ogre is weaker, so that two turns of stun exceed its hp
ogre_duel ==
    [ogre_bout EXCEPT !.id = "ogre_duel", !.victory_to = "infirmary", !.defeat_to = "camp",
                      !.enemy.hp = 6]

ArenaDefaults ==
    [ITEM_DEFINITIONS |-> Merge(VaultItems, WEAPON_DEFINITIONS),
     START_ROOM_ID |-> "camp",
     DEFEAT_ROOM_ID |-> "infirmary",
     STARTING_STATS |-> [hp |-> 10, max_hp |-> 10, mana |-> 5, max_mana |-> 5, stamina |-> 5,
                         attack |-> 1, defence |-> 0, xp |-> 0],
     DAMAGE_VARIANCE |-> 0,
     CRIT_CHANCE |-> 0,
     CRIT_MULTIPLIER |-> 150,
     XP_PER_VICTORY |-> 5,
     MANA_PER_ROOM |-> 25]

\* the rooms and battles mappings handed to GameApp (loader.load_rooms, load_battles)
rooms ==
    [start |-> start_room, armory |-> armory_room, goblin_hall |-> goblin_hall_room,
     goblin_victory |-> goblin_victory_room, goblin_defeat |-> goblin_defeat_room,
     lab |-> lab_room, annex |-> annex_room, cell |-> cell_room,
     vault |-> vault_room, pit |-> pit_room,
     camp |-> camp_room, gallery |-> gallery_room, infirmary |-> infirmary_room]

battles ==
    [goblin_trial |-> goblin_trial, rat_fight |-> rat_fight, ogre_bout |-> ogre_bout,
     ogre_duel |-> ogre_duel]

----------------------------------------------------------------------------
(* Item registry *)

\* GameApp._item_definition; DEFAULT_ITEM_DEFINITIONS is empty
ItemDefinition(item_id) ==
    IF item_id \in DOMAIN defaults.ITEM_DEFINITIONS
    THEN defaults.ITEM_DEFINITIONS[item_id]
    ELSE [name |-> item_id, description |-> "", effects |-> EmptyDict]

\* definition.get("category") == "weapon" or definition.get("weapon_type")
IsWeaponDefinition(definition) ==
    \/ Get(definition, "category", "") = "weapon"
    \/ Get(definition, "weapon_type", None) # None

----------------------------------------------------------------------------
(* Equipment: GameApp._equip_weapon, _unequip_weapon, _apply_weapon_effects *)

\* weapon effects that are added whether or not they are being removed
ApplyWeaponEffects_AlwaysAdds(st, definition, remove) ==
    LET effects == Get(definition, "effects", EmptyDict)
    IN  [n \in DOMAIN st |-> IF n \in DOMAIN effects THEN st[n] + effects[n] ELSE st[n]]

\* GameApp._apply_weapon_effects on a Stats value
ApplyWeaponEffects(st, definition, remove) ==
    LET effects == Get(definition, "effects", EmptyDict)
    IN  [n \in DOMAIN st |->
            IF n \in DOMAIN effects
            THEN st[n] + (IF remove THEN -effects[n] ELSE effects[n])
            ELSE st[n]]

\* GameApp._weapon_slot
WeaponSlot(definition) ==
    IF Get(definition, "weapon_type", "melee") = "ranged" THEN "ranged" ELSE "melee"

\* GameApp._equipped_slot
EquippedSlot(s, item_id) ==
    IF \E slot \in DOMAIN s.equipment : s.equipment[slot] = item_id
    THEN CHOOSE slot \in DOMAIN s.equipment : s.equipment[slot] = item_id
    ELSE None

\* GameApp._unequip_weapon
UnequipWeapon(s, slot) ==
    LET weapon_id == Get(s.equipment, slot, None)
    IN  IF weapon_id = None
        THEN s
        ELSE [s EXCEPT !.stats = ApplyWeaponEffects(s.stats, ItemDefinition(weapon_id), TRUE),
                       !.equipment = Put(s.equipment, slot, None)]

\* an equip that takes the slot without unequipping the weapon that held it
EquipWeapon_KeepsOldEffects(s, item_id, definition) ==
    LET slot == WeaponSlot(definition)
        current == Get(s.equipment, slot, None)
    IN  IF current = item_id
        THEN [state |-> s, equipped |-> FALSE]
        ELSE [state |-> [s EXCEPT !.equipment = Put(s.equipment, slot, item_id),
                                  !.stats = ApplyWeaponEffects(s.stats, definition, FALSE)],
              equipped |-> TRUE]

\* GameApp._equip_weapon: the state afterwards and the returned flag
EquipWeapon(s, item_id, definition) ==
    LET slot == WeaponSlot(definition)
        current == Get(s.equipment, slot, None)
        s1 == IF current # None THEN UnequipWeapon(s, slot) ELSE s
    IN  IF current = item_id
        THEN [state |-> s, equipped |-> FALSE]
        ELSE [state |-> [s1 EXCEPT !.equipment = Put(s1.equipment, slot, item_id),
                                   !.stats = ApplyWeaponEffects(s1.stats, definition, FALSE)],
              equipped |-> TRUE]

\* a consumption that leaves the entry at zero instead of removing it
ConsumeInventory_KeepsZero(s, item_id, amount) ==
    IF amount <= 0 THEN s
    ELSE [s EXCEPT !.inventory = Put(s.inventory, item_id,
                                     Max(0, Get(s.inventory, item_id, 0) - amount))]

\* GameApp._consume_inventory
ConsumeInventory(s, item_id, amount) ==
    LET remaining == Get(s.inventory, item_id, 0) - amount
    IN  IF amount <= 0
        THEN s
        ELSE IF remaining <= 0
             THEN [s EXCEPT !.inventory = Pop(s.inventory, item_id)]
             ELSE [s EXCEPT !.inventory = Put(s.inventory, item_id, remaining)]

----------------------------------------------------------------------------
(* Flags and requirements *)

\* GameApp._flag_value
FlagValue(s, flag) == Get(s.flags, flag, 0)

\* GameApp._set_flag's return value
SetFlagChanged(s, flag, value) == ~(flag \in DOMAIN s.flags /\ s.flags[flag] = value)

\* GameApp._set_flag; every caller ors the returned flag into its requires_refresh
SetFlag(s, flag, value) ==
    [s EXCEPT !.flags = Put(s.flags, flag, value),
              !.requires_refresh = @ \/ SetFlagChanged(s, flag, value)]

\* GameApp._clear_flag; the caller ors the returned flag into its requires_refresh
ClearFlag(s, flag) ==
    [s EXCEPT !.flags = Pop(s.flags, flag), !.timed_flags = Pop(s.timed_flags, flag),
              !.requires_refresh = @ \/ flag \in DOMAIN s.flags]

\* isinstance(expr, dict)
IsDict(expr) == "not_a_dict" \notin DOMAIN expr

\* an evaluator whose `min` asks for more than the threshold
RECURSIVE EvaluateRequirement_MinExceeds(_, _)
EvaluateRequirement_MinExceeds(s, expr) ==
    IF ~IsDict(expr) THEN FALSE
    ELSE IF "flag" \in DOMAIN expr THEN FlagValue(s, expr.flag) > 0
    ELSE IF "not_flag" \in DOMAIN expr THEN FlagValue(s, expr.not_flag) = 0
    ELSE IF "min" \in DOMAIN expr
         THEN IF ~IsDict(expr.min) THEN FALSE
              ELSE \A key \in DOMAIN expr.min : ~(FlagValue(s, key) <= expr.min[key])
    ELSE IF "alert_below" \in DOMAIN expr THEN s.alert_level < expr.alert_below
    ELSE IF "all" \in DOMAIN expr
         THEN \A i \in DOMAIN expr.all :
                 IsDict(expr.all[i]) => EvaluateRequirement_MinExceeds(s, expr.all[i])
    ELSE IF "any" \in DOMAIN expr
         THEN \E i \in DOMAIN expr.any :
                 IsDict(expr.any[i]) /\ EvaluateRequirement_MinExceeds(s, expr.any[i])
    ELSE TRUE

\* GameApp._evaluate_requirement
RECURSIVE EvaluateRequirement(_, _)
EvaluateRequirement(s, expr) ==
    IF ~IsDict(expr) THEN FALSE
    ELSE IF "flag" \in DOMAIN expr THEN FlagValue(s, expr.flag) > 0
    ELSE IF "not_flag" \in DOMAIN expr THEN FlagValue(s, expr.not_flag) = 0
    ELSE IF "min" \in DOMAIN expr
         THEN IF ~IsDict(expr.min) THEN FALSE
              ELSE \A key \in DOMAIN expr.min : ~(FlagValue(s, key) < expr.min[key])
    ELSE IF "alert_below" \in DOMAIN expr THEN s.alert_level < expr.alert_below
    ELSE IF "all" \in DOMAIN expr
         THEN \A i \in DOMAIN expr.all :
                 IsDict(expr.all[i]) => EvaluateRequirement(s, expr.all[i])
    ELSE IF "any" \in DOMAIN expr
         THEN \E i \in DOMAIN expr.any :
                 IsDict(expr.any[i]) /\ EvaluateRequirement(s, expr.any[i])
    ELSE TRUE

\* an availability test without the requires_not_flag check
OptionAvailable_IgnoresForbidden(s, option) ==
    /\ ~(option.requires_flag # None /\ FlagValue(s, option.requires_flag) <= 0)
    /\ ~(IsDict(option.require_expr) /\ ~EvaluateRequirement(s, option.require_expr))

\* GameApp._option_available
OptionAvailable(s, option) ==
    /\ ~(option.requires_flag # None /\ FlagValue(s, option.requires_flag) <= 0)
    /\ ~(option.requires_not_flag # None /\ FlagValue(s, option.requires_not_flag) > 0)
    /\ ~(IsDict(option.require_expr) /\ ~EvaluateRequirement(s, option.require_expr))

\* GameApp._tick_timed_flags: timers after the tick
TickedTimers(s) ==
    [f \in { g \in DOMAIN s.timed_flags : ~(s.timed_flags[g] - 1 <= 0) } |-> s.timed_flags[f] - 1]

\* a tick that lets a timer reach zero without expiring
ExpiredFlags_BelowZero(s) == { f \in DOMAIN s.timed_flags : s.timed_flags[f] - 1 < 0 }

\* GameApp._tick_timed_flags: the flags whose timer ran out
ExpiredFlags(s) == { f \in DOMAIN s.timed_flags : s.timed_flags[f] - 1 <= 0 }

\* GameApp._tick_timed_flags: the messages returned
ExpiredMessages(s) == { [kind |-> "fades", arg |-> f] : f \in ExpiredFlags(s) \cap DOMAIN s.flags }

\* GameApp._tick_timed_flags: the state afterwards
TickTimedFlags(s) ==
    [s EXCEPT !.timed_flags = TickedTimers(s),
              !.flags = [f \in (DOMAIN s.flags) \ ExpiredFlags(s) |-> s.flags[f]]]

\* a regeneration that adds the points without looking at max_mana
RegenMana_Uncapped(s) ==
    LET regen_value == Get(defaults, "MANA_PER_ROOM", 0)
        reserve == s.mana_regen_reserve + regen_value
        points == reserve \div 100
    IN  IF regen_value <= 0 THEN s
        ELSE IF points <= 0 THEN [s EXCEPT !.mana_regen_reserve = reserve]
        ELSE [s EXCEPT !.mana_regen_reserve = reserve - points * 100,
                       !.stats = [s.stats EXCEPT !.mana = s.stats.mana + points]]

\* GameApp._regen_mana; the reserve and MANA_PER_ROOM are in hundredths of a point
RegenMana(s) ==
    LET regen_value == Get(defaults, "MANA_PER_ROOM", 0)
        reserve == s.mana_regen_reserve + regen_value
        points == reserve \div 100
    IN  IF regen_value <= 0 THEN s
        ELSE IF points <= 0 THEN [s EXCEPT !.mana_regen_reserve = reserve]
        ELSE [s EXCEPT !.mana_regen_reserve = reserve - points * 100,
                       !.stats = [s.stats EXCEPT !.mana = Min(s.stats.max_mana,
                                                             s.stats.mana + points)]]


----------------------------------------------------------------------------
(* Loot: GameApp._roll_loot_table, _collect_loot *)

\* the values a draw of random.random() is taken from, in percent
Draws == {0, 50, 99}

\* max(0.0, min(1.0, float(entry.get("chance", 1.0)))) in percent
EntryChance(entry) == Max(0, Min(100, Get(entry, "chance", 100)))

\* entry.get("unique_key") or item
UniqueKey(entry) ==
    IF Get(entry, "unique_key", None) # None THEN entry.unique_key ELSE entry.item

\* a roll that never skips a unique entry
UniqueTaken_Never(unique, entry) == FALSE

\* the test that skips a unique entry whose key was awarded before
UniqueTaken(unique, entry) == UniqueKey(entry) \in unique

\* one attempt of GameApp._roll_loot_table: the scan of the table from entry j on
RECURSIVE ScanLootTable(_, _, _, _)
ScanLootTable(unique, table, j, row) ==
    IF j > Len(table) THEN [unique |-> unique, award |-> << >>, keys |-> << >>]
    ELSE LET entry == table[j]
             item == Get(entry, "item", None)
             chance == EntryChance(entry)
         IN  IF item = None THEN ScanLootTable(unique, table, j + 1, row)
             ELSE IF chance < 100 /\ row[j] > chance
                  THEN ScanLootTable(unique, table, j + 1, row)
             ELSE IF Get(entry, "unique", FALSE)
                  THEN IF UniqueTaken(unique, entry)
                       THEN ScanLootTable(unique, table, j + 1, row)
                       ELSE [unique |-> unique \cup {UniqueKey(entry)},
                             award |-> << item >>, keys |-> << UniqueKey(entry) >>]
             ELSE [unique |-> unique, award |-> << item >>, keys |-> << >>]

\* the attempts loop of GameApp._roll_loot_table, from attempt a on
RECURSIVE RollAttempts(_, _, _, _, _)
RollAttempts(unique, table, attempts, a, draws) ==
    IF a > attempts THEN [unique |-> unique, awards |-> << >>, keys |-> << >>]
    ELSE LET one == ScanLootTable(unique, table, 1, draws[a])
             rest == RollAttempts(one.unique, table, attempts, a + 1, draws)
         IN  [unique |-> rest.unique, awards |-> one.award \o rest.awards,
              keys |-> one.keys \o rest.keys]

\* max(1, int(rolls or 1))
LootAttempts(table, rolls) == IF Len(table) = 0 THEN 0 ELSE Max(1, rolls)

\* the draws a loot roll may consume: one per attempt and entry
LootDraws(table, rolls) ==
    [1..LootAttempts(table, rolls) -> [1..Len(table) -> Draws]]

\* GameApp._roll_loot_table: the awards, and the state with the unique keys recorded;
\* history counts the awards each unique key has had
RollLootTable(s, table, rolls, draws) ==
    LET r == RollAttempts(s.unique_loot_awards, table, LootAttempts(table, rolls), 1, draws)
        count == s.history.unique_award_count
    IN  [state |-> [s EXCEPT !.unique_loot_awards = r.unique,
                             !.history.unique_award_count =
                                 [k \in (DOMAIN count) \cup Range(r.keys) |->
                                     Get(count, k, 0) + CountOf(r.keys, k)]],
         awards |-> r.awards]

\* the inventory update of GameApp._collect_loot and of gained items
AddItems(s, items) ==
    [s EXCEPT !.inventory =
        [x \in (DOMAIN s.inventory) \cup Range(items) |->
            Get(s.inventory, x, 0) + CountOf(items, x)]]

----------------------------------------------------------------------------
(* Effects Applier: GameApp._apply_option_effects *)

\* the gained items of an option: gain_items and the rolled loot enter the inventory
GainItems(rolled, gain_items) ==
    IF Len(gain_items \o rolled.awards) = 0 THEN rolled.state
    ELSE [AddItems(rolled.state, gain_items \o rolled.awards) EXCEPT !.requires_refresh = TRUE]

\* if option.set_flag and self._set_flag(option.set_flag, 1)
SetOptionFlag(s, option) ==
    IF option.set_flag # None THEN SetFlag(s, option.set_flag, 1) ELSE s

\* the equip_item loop
RECURSIVE EquipTargets(_, _, _)
EquipTargets(s, equip_ids, i) ==
    IF i > Len(equip_ids) THEN s
    ELSE LET item_id == equip_ids[i]
             definition == ItemDefinition(item_id)
         IN  IF Get(s.inventory, item_id, 0) <= 0 \/ ~IsWeaponDefinition(definition)
             THEN EquipTargets(s, equip_ids, i + 1)
             ELSE EquipTargets(
                      [EquipWeapon(s, item_id, definition).state EXCEPT !.requires_refresh =
                          @ \/ EquipWeapon(s, item_id, definition).equipped],
                      equip_ids, i + 1)

\* timer_rooms_value, None being 0
TimerRoomsValue(effects) == Max(0, Get(effects, "timer_rooms", 0))

\* the effects.set loop: every flag written, and timed when timer_rooms > 0
ApplySetMap(s, effects) ==
    LET set_map == Get(effects, "set", EmptyDict)
        timer == TimerRoomsValue(effects)
    IN  [s EXCEPT !.flags = Merge(s.flags, set_map),
                  !.timed_flags = IF timer > 0
                                  THEN Merge(s.timed_flags, [f \in DOMAIN set_map |-> timer])
                                  ELSE s.timed_flags,
                  !.requires_refresh =
                      @ \/ \E f \in DOMAIN set_map : SetFlagChanged(s, f, set_map[f])]

\* the effects.inc loop
ApplyIncMap(s, effects) ==
    LET inc_map == Get(effects, "inc", EmptyDict)
    IN  [s EXCEPT !.flags = Merge(s.flags, [f \in DOMAIN inc_map |->
                                               Get(s.flags, f, 0) + inc_map[f]]),
                  !.requires_refresh =
                      @ \/ \E f \in DOMAIN inc_map :
                              SetFlagChanged(s, f, Get(s.flags, f, 0) + inc_map[f])]

\* effects.energy_cost
ApplyEnergyCost(s, effects) ==
    LET cost == Max(0, Get(effects, "energy_cost", 0))
    IN  [s EXCEPT !.stats.stamina = IF cost # 0 THEN Max(0, s.stats.stamina - cost)
                                    ELSE s.stats.stamina]

\* self.alert_level = max(0, self.alert_level + change)
AddAlert(s, change) == [s EXCEPT !.alert_level = Max(0, s.alert_level + change)]

\* effects.enemy_stunned
ApplyEnemyStunned(s, effects) ==
    IF "enemy_stunned" \in DOMAIN effects
    THEN SetFlag(s, "enemy_stunned", effects.enemy_stunned)
    ELSE s

\* whether the roll_check draw fails
RollCheckFails(effects, draw) ==
    /\ "roll_check" \in DOMAIN effects
    /\ draw > Max(0, Min(100, Get(effects.roll_check, "pass", 100)))

\* the alert raised inside the roll_check branch when the draw fails
RollCheckAlert(effects, failed) ==
    IF failed THEN Get(effects.roll_check, "on_fail_alert", 0) ELSE 0

\* if option.clear_flag: self._clear_flag(option.clear_flag)
ClearOptionFlag(s, option) ==
    IF option.clear_flag # None THEN ClearFlag(s, option.clear_flag) ELSE s

\* hp_fail_effect as accumulated by the roll_check and the legacy key
HpFailEffect(effects, failed) ==
    (IF failed THEN Get(effects.roll_check, "hp_delta_on_fail", 0) ELSE 0)
        + Get(effects, "hp_delta_on_fail", 0)

\* effects.get("alert_on_fail") or effects.get("on_fail_alert")
AlertOnFail(effects) ==
    IF Get(effects, "alert_on_fail", 0) # 0 THEN effects.alert_on_fail
    ELSE Get(effects, "on_fail_alert", 0)

\* the end of _apply_option_effects: set_flag made timed, then the failure penalties
SettleEffects(s, option, failed) ==
    LET effects == option.effects
        timer == TimerRoomsValue(effects)
        hp_fail_effect == HpFailEffect(effects, failed)
    IN  [s EXCEPT !.timed_flags = IF timer > 0 /\ option.set_flag # None
                                  THEN Put(s.timed_flags, option.set_flag, timer)
                                  ELSE s.timed_flags,
                  !.alert_level = IF failed THEN Max(0, s.alert_level + AlertOnFail(effects))
                                  ELSE s.alert_level,
                  !.stats.hp = IF failed /\ hp_fail_effect # 0
                               THEN Max(0, Min(s.stats.max_hp, s.stats.hp + hp_fail_effect))
                               ELSE s.stats.hp]

\* the flags this option makes timed
ArmedBy(option) ==
    IF TimerRoomsValue(option.effects) > 0
    THEN (DOMAIN Get(option.effects, "set", EmptyDict)) \cup ({option.set_flag} \ {None})
    ELSE {}

\* observation: a flag made timed by the option starts a count of go_to calls; a flag
\* whose timer the option removed stops being counted
ObserveEffects(s, option) ==
    LET was == s.history.timer
        now == (ArmedBy(option) \cap DOMAIN s.flags) \cap DOMAIN s.timed_flags
        kept == { f \in DOMAIN was : f \in DOMAIN s.timed_flags \/ was[f].state # "armed" }
    IN  [s EXCEPT !.history.timer =
            [f \in kept \cup now |->
                IF f \in now
                THEN [n |-> s.timed_flags[f], calls |-> 0, state |-> "armed"]
                ELSE was[f]]]

\* GameApp._apply_option_effects, each step applied to the state the step before left;
\* rnd holds the draws. The returned requires_refresh is the field of that name
ApplyOptionEffects(s, option, rnd) ==
    ObserveEffects(
     SettleEffects(
      ClearOptionFlag(
       AddAlert(
        ApplyEnemyStunned(
         AddAlert(
          ApplyEnergyCost(
           ApplyIncMap(
            ApplySetMap(
             EquipTargets(
              SetOptionFlag(
               GainItems(
                RollLootTable([s EXCEPT !.requires_refresh = FALSE],
                              option.loot_table, option.loot_rolls, rnd.loot),
                option.gain_items),
               option),
              Get(option.effects, "equip_item", << >>), 1),
             option.effects),
            option.effects),
           option.effects),
          Get(option.effects, "alert", 0)),
         option.effects),
        RollCheckAlert(option.effects, RollCheckFails(option.effects, rnd.check))),
       option),
      option, RollCheckFails(option.effects, rnd.check)),
     option)

\* the draws GameApp._apply_option_effects may consume
EffectDraws(option) ==
    [loot : LootDraws(option.loot_table, option.loot_rolls),
     check : IF "roll_check" \in DOMAIN option.effects THEN Draws ELSE {0}]

----------------------------------------------------------------------------
(* Presentation state: GameApp.set_dialogue, _append_dialogue, set_options *)

\* number of option buttons built by _build_ui
OptionButtons == 4

Line(kind, arg) == [kind |-> kind, arg |-> arg]

\* GameApp.set_dialogue
SetDialogue(s, lines) == [s EXCEPT !.dialogue = lines]

\* GameApp._append_dialogue
AppendDialogue(s, lines) == [s EXCEPT !.dialogue = s.dialogue \cup lines]

\* one entry of the options list: what the handler closes over, and the enabled flag
Handler(kind, owner, index, enabled) ==
    [kind |-> kind, owner |-> owner, index |-> index, enabled |-> enabled]

\* GameApp.set_options: at most one option per button
SetOptions(s, options) ==
    [s EXCEPT !.option_handlers = SubSeq(options, 1, Min(Len(options), OptionButtons))]

\* the options list of a room: GameApp._build_room_options plus the filler option
RoomOptions(s, room) ==
    LET Offered(i) == OptionAvailable(s, room.options[i])
        indexes == SelectSeq([i \in DOMAIN room.options |-> i], Offered)
        built == [k \in DOMAIN indexes |-> Handler("room_option", room.id, indexes[k], TRUE)]
    IN  IF Len(built) = 0 THEN << Handler("filler", None, 0, TRUE) >> ELSE built

\* GameApp._refresh_current_room_options
RefreshCurrentRoomOptions(s) ==
    IF s.current_room_id = None \/ s.current_room_id \notin DOMAIN rooms
    THEN s
    ELSE SetOptions(s, RoomOptions(s, rooms[s.current_room_id]))

----------------------------------------------------------------------------
(* Navigation Controller: GameApp.go_to *)

\* self.current_battle = None
NoBattle == [spec |-> None, option_to |-> None, enemy_hp |-> 0, repeat_key |-> None]

\* observation: every counted flag has seen one more go_to call; it has faded when this
\* call wrote its message and removed the flag and its timer, it stays armed when the
\* call left both and wrote no message, and it is lost otherwise
ObserveTick(before, after) ==
    LET was == before.history.timer
    IN  [after EXCEPT !.history.timer =
            [f \in DOMAIN was |->
                IF was[f].state # "armed" THEN was[f]
                ELSE [n |-> was[f].n,
                      calls |-> was[f].calls + 1,
                      state |-> IF Line("fades", f) \in after.dialogue
                                THEN IF f \notin DOMAIN after.flags
                                        /\ f \notin DOMAIN after.timed_flags
                                     THEN "faded" ELSE "lost"
                                ELSE IF f \in DOMAIN after.flags
                                        /\ f \in DOMAIN after.timed_flags
                                     THEN "armed" ELSE "lost"]]]

\* observation: the mana before each of the last four room transitions that followed
\* one another with no change of mana in between
ObserveRegen(before, after) ==
    LET window == Append(before.history.regen, before.stats.mana)
    IN  [after EXCEPT !.history.regen = IF Len(window) > 4 THEN Tail(window) ELSE window]

\* GameApp.go_to from the assignment of current_room_id on
ShowRoom(s, room_id, expired_messages) ==
    [s EXCEPT !.current_room_id = room_id,
              !.current_battle = NoBattle,
              !.dialogue = {Line("room", room_id)} \cup expired_messages,
              !.option_handlers = SetOptions(s, RoomOptions(s, rooms[room_id])).option_handlers]

\* a go_to that ticks the timers and regenerates mana before it looks the room up
GoTo_TicksFirst(s, room_id, initial) ==
    IF room_id \notin DOMAIN rooms
    THEN SetDialogue(IF initial THEN s ELSE RegenMana(TickTimedFlags(s)),
                     {Line("room_missing", room_id)})
    ELSE IF initial THEN ShowRoom(s, room_id, {})
    ELSE ObserveRegen(s,
             ObserveTick(s, ShowRoom(RegenMana(TickTimedFlags(s)), room_id,
                                     ExpiredMessages(s))))

\* GameApp.go_to
GoTo(s, room_id, initial) ==
    IF room_id \notin DOMAIN rooms
    THEN SetDialogue(s, {Line("room_missing", room_id)})
    ELSE IF initial THEN ShowRoom(s, room_id, {})
    ELSE ObserveRegen(s,
             ObserveTick(s, ShowRoom(RegenMana(TickTimedFlags(s)), room_id,
                                     ExpiredMessages(s))))

\* GameApp._prepare_room_transition
PrepareRoomTransition(s, next_room) ==
    SetOptions([s EXCEPT !.pending_room_transition = next_room],
               << Handler("continue", None, 0, TRUE) >>)

\* GameApp._execute_pending_transition
ExecutePendingTransition(s) ==
    LET next_room == s.pending_room_transition
        taken == [s EXCEPT !.pending_room_transition = None]
    IN  IF next_room # None THEN GoTo(taken, next_room, FALSE)
        ELSE RefreshCurrentRoomOptions(taken)


----------------------------------------------------------------------------
(* Combat Resolver *)

\* whether self.current_battle is set
InBattle(s) == s.current_battle.spec # None

\* an availability test that forgets requires_weapon_id when no weapon type is required
BattleActionAvailable_IgnoresLoneId(s, action) ==
    LET required_weapon_type == action.requires_weapon_type
        required_weapon_id == action.requires_weapon_id
        equipped == Get(s.equipment, required_weapon_type, None)
        weapon_ok ==
            IF required_weapon_type # None
            THEN /\ equipped # None
                 /\ ~(required_weapon_id # None /\ equipped # required_weapon_id)
            ELSE TRUE
        ammo_ok ==
            IF action.ammo_item # None
            THEN ~(Get(s.inventory, action.ammo_item, 0) < Max(0, action.ammo_cost))
            ELSE TRUE
    IN  weapon_ok /\ ammo_ok

\* GameApp._battle_action_available
BattleActionAvailable(s, action) ==
    LET required_weapon_type == action.requires_weapon_type
        required_weapon_id == action.requires_weapon_id
        equipped == Get(s.equipment, required_weapon_type, None)
        weapon_ok ==
            IF required_weapon_type # None
            THEN /\ equipped # None
                 /\ ~(required_weapon_id # None /\ equipped # required_weapon_id)
            ELSE IF required_weapon_id # None
                 THEN required_weapon_id \in Range(s.equipment)
                 ELSE TRUE
        ammo_ok ==
            IF action.ammo_item # None
            THEN ~(Get(s.inventory, action.ammo_item, 0) < Max(0, action.ammo_cost))
            ELSE TRUE
    IN  weapon_ok /\ ammo_ok

\* the options list GameApp._refresh_battle_actions builds and hands to set_options
BattleOptions(s, battle) ==
    LET Shown(i) == BattleActionAvailable(s, battle.actions[i])
                        \/ battle.actions[i].show_if_unavailable
        indexes == SelectSeq([i \in DOMAIN battle.actions |-> i], Shown)
        built == [k \in DOMAIN indexes |->
                    Handler("battle_action", battle.id, indexes[k],
                            BattleActionAvailable(s, battle.actions[indexes[k]]))]
    IN  IF Len(built) = 0 THEN << Handler("pass_turn", None, 0, TRUE) >> ELSE built

\* GameApp._refresh_battle_actions
RefreshBattleActions(s, battle) ==
    IF ~InBattle(s) THEN s ELSE SetOptions(s, BattleOptions(s, battle))

\* a start_battle whose stun reduction is not capped at the enemy's hp
StartBattle_UncappedStun(s, battle, option_default_to, repeat_key) ==
    LET stunned_turns == Max(0, Get(s.flags, "enemy_stunned", 0))
        reduction == stunned_turns * 4
        popped == [s EXCEPT !.flags = Pop(s.flags, "enemy_stunned"),
                            !.history.timer = Pop(s.history.timer, "enemy_stunned")]
        begun == [popped EXCEPT !.current_battle =
                     [spec |-> battle.id, option_to |-> option_default_to,
                      enemy_hp |-> IF stunned_turns # 0 THEN battle.enemy.hp - reduction
                                   ELSE battle.enemy.hp,
                      repeat_key |-> repeat_key]]
    IN  RefreshBattleActions(
            SetDialogue(begun, {Line(IF stunned_turns # 0 THEN "battle_reels" ELSE "battle_opens",
                                     battle.id)}),
            battle)

\* GameApp.start_battle
StartBattle(s, battle, option_default_to, repeat_key) ==
    LET stunned_turns == Max(0, Get(s.flags, "enemy_stunned", 0))
        reduction == Min(battle.enemy.hp, stunned_turns * 4)
        \* the flag is popped; observation: its go_to calls stop being counted
        popped == [s EXCEPT !.flags = Pop(s.flags, "enemy_stunned"),
                            !.history.timer = Pop(s.history.timer, "enemy_stunned")]
        begun == [popped EXCEPT !.current_battle =
                     [spec |-> battle.id, option_to |-> option_default_to,
                      enemy_hp |-> IF stunned_turns # 0 THEN battle.enemy.hp - reduction
                                   ELSE battle.enemy.hp,
                      repeat_key |-> repeat_key]]
    IN  RefreshBattleActions(
            SetDialogue(begun, {Line(IF stunned_turns # 0 THEN "battle_reels" ELSE "battle_opens",
                                     battle.id)}),
            battle)

\* GameApp._take_damage
TakeDamage(s, amount) == [s EXCEPT !.stats.hp = Max(0, s.stats.hp - amount)]

\* GameApp._heal_player
HealPlayer(s, amount) == [s EXCEPT !.stats.hp = Min(s.stats.max_hp, s.stats.hp + amount)]

\* the rolls random.randint(0, max(0, DAMAGE_VARIANCE)) of the enemy can give
EnemyRolls == 0..Max(0, Get(defaults, "DAMAGE_VARIANCE", 2))

\* GameApp._enemy_attack
EnemyAttack(s, battle, roll) ==
    LET damage == Max(0, battle.enemy.attack + roll - s.stats.defence)
    IN  IF damage > 0 THEN TakeDamage(s, damage) ELSE s

\* the rolls random.randint(0, total_variance) of the player can give
PlayerRolls(variance) == 0..Max(0, variance + Get(defaults, "DAMAGE_VARIANCE", 0))

\* the damage of GameApp._calculate_player_damage before the critical-hit check
BaseDamage(attack, bonus, roll, in_battle, defence) ==
    LET raised == Max(0, attack + bonus + roll)
    IN  Max(0, IF in_battle THEN raised - defence ELSE raised)

\* int(damage * multiplier), the multiplier in percent
CritDamage(damage, multiplier) == (damage * multiplier) \div 100

\* GameApp._calculate_player_damage on its inputs: the attack stat, the action's bonus,
\* the roll drawn, the battle in progress and its enemy's defence, and the crit settings
PlayerDamage(attack, bonus, roll, in_battle, defence, crit_chance, crit_draw, multiplier) ==
    IF crit_chance > 0 /\ crit_draw < crit_chance
    THEN CritDamage(BaseDamage(attack, bonus, roll, in_battle, defence), multiplier)
    ELSE BaseDamage(attack, bonus, roll, in_battle, defence)

\* GameApp._calculate_player_damage in the game state s
CalculatePlayerDamage(s, bonus, roll, crit_draw) ==
    PlayerDamage(s.stats.attack, bonus, roll, InBattle(s),
                 IF InBattle(s) THEN battles[s.current_battle.spec].enemy.defence ELSE 0,
                 Get(defaults, "CRIT_CHANCE", 0), crit_draw,
                 Get(defaults, "CRIT_MULTIPLIER", 150))

\* self._collect_loot(table_loot) on the result of the victory roll
CollectTableLoot(rolled) == AddItems(rolled.state, rolled.awards)

\* a victory that forgets the `to` of the option that started the battle
CloseVictory_IgnoresOptionTo(s, battle) ==
    LET repeat_key == s.current_battle.repeat_key
        next_room == IF battle.victory_to # None THEN battle.victory_to
                     ELSE s.current_room_id
    IN  PrepareRoomTransition(
            [s EXCEPT !.battle_repeat_tracker =
                          IF repeat_key # None
                          THEN Put(s.battle_repeat_tracker, repeat_key,
                                   Get(s.battle_repeat_tracker, repeat_key, 0) + 1)
                          ELSE s.battle_repeat_tracker,
                      !.current_battle = NoBattle,
                      !.dialogue = {Line("victory", battle.id)}],
            next_room)

\* GameApp._handle_victory from next_room on: the victory counted, the battle closed
CloseVictory(s, battle) ==
    LET repeat_key == s.current_battle.repeat_key
        next_room == IF battle.victory_to # None THEN battle.victory_to
                     ELSE IF s.current_battle.option_to # None THEN s.current_battle.option_to
                     ELSE s.current_room_id
    IN  PrepareRoomTransition(
            [s EXCEPT !.battle_repeat_tracker =
                          IF repeat_key # None
                          THEN Put(s.battle_repeat_tracker, repeat_key,
                                   Get(s.battle_repeat_tracker, repeat_key, 0) + 1)
                          ELSE s.battle_repeat_tracker,
                      !.current_battle = NoBattle,
                      !.dialogue = {Line("victory", battle.id)}],
            next_room)

\* GameApp._handle_victory
HandleVictory(s, loot_draws) ==
    LET battle == battles[s.current_battle.spec]
    IN  IF ~InBattle(s) THEN s
        ELSE CloseVictory(
                 CollectTableLoot(
                     RollLootTable(
                         AddItems([s EXCEPT !.stats.xp =
                                      s.stats.xp + Get(defaults, "XP_PER_VICTORY", 0)],
                                  battle.enemy.loot),
                         battle.loot_table, battle.loot_rolls, loot_draws)),
                 battle)

\* a defeat that leaves hp where the battle left it
HandleDefeat_KeepsHp(s) ==
    LET battle == battles[s.current_battle.spec]
        defeat_room == IF battle.defeat_to # None THEN battle.defeat_to
                       ELSE Get(defaults, "DEFEAT_ROOM_ID", defaults.START_ROOM_ID)
    IN  IF ~InBattle(s) THEN s
        ELSE PrepareRoomTransition(
                 SetDialogue([s EXCEPT !.current_battle = NoBattle],
                             {Line("defeat", battle.id)}),
                 defeat_room)

\* a defeat that always routes to the start room
HandleDefeat_ToStart(s) ==
    LET battle == battles[s.current_battle.spec]
    IN  IF ~InBattle(s) THEN s
        ELSE PrepareRoomTransition(
                 SetDialogue([s EXCEPT !.stats.hp = s.stats.max_hp, !.current_battle = NoBattle],
                             {Line("defeat", battle.id)}),
                 defaults.START_ROOM_ID)

\* GameApp._handle_defeat
HandleDefeat(s) ==
    LET battle == battles[s.current_battle.spec]
        defeat_room == IF battle.defeat_to # None THEN battle.defeat_to
                       ELSE Get(defaults, "DEFEAT_ROOM_ID", defaults.START_ROOM_ID)
    IN  IF ~InBattle(s) THEN s
        ELSE PrepareRoomTransition(
                 SetDialogue([s EXCEPT !.stats.hp = s.stats.max_hp, !.current_battle = NoBattle],
                             {Line("defeat", battle.id)}),
                 defeat_room)

\* the enemy's turn that ends a forfeited, missed or resolved action:
\* _enemy_attack, then defeat at 0 hp, else the log is shown and the actions refreshed
EnemyTurn(s, battle, enemy_roll, lines) ==
    LET struck == EnemyAttack(s, battle, enemy_roll)
    IN  IF struck.stats.hp <= 0 THEN HandleDefeat(struck)
        ELSE RefreshBattleActions(SetDialogue(struck, lines), battle)

\* a defensive stance that the enemy cannot get through
PassTurn_Unharmed(s, rnd) ==
    IF ~InBattle(s) THEN s
    ELSE RefreshBattleActions(SetDialogue(s, {Line("endure", None)}),
                              battles[s.current_battle.spec])

\* GameApp._pass_turn
PassTurn(s, rnd) ==
    IF ~InBattle(s) THEN s
    ELSE EnemyTurn(s, battles[s.current_battle.spec], rnd.enemy_roll, {Line("endure", None)})

\* the effect of the action's kind on the battle: the state, and whether the turn was aborted
ActionEffect(s, action, rnd) ==
    LET hurt(st, damage) == [st EXCEPT !.current_battle.enemy_hp =
                                Max(0, st.current_battle.enemy_hp - damage)]
    IN  CASE action.kind = "attack" ->
                [state |-> hurt(s, CalculatePlayerDamage(s, action.bonus, rnd.roll, rnd.crit)),
                 aborted |-> FALSE]
          [] action.kind = "skill_check" ->
                LET stat_value == Get(s.stats, action.stat, 0)
                    s1 == IF action.success_damage # 0 THEN hurt(s, action.success_damage) ELSE s
                    s2 == IF action.success_heal # 0 THEN HealPlayer(s1, action.success_heal) ELSE s1
                    f1 == IF action.fail_damage # 0 THEN TakeDamage(s, action.fail_damage) ELSE s
                    f2 == IF action.fail_heal # 0 THEN HealPlayer(f1, action.fail_heal) ELSE f1
                IN  [state |-> IF stat_value >= action.gte THEN s2 ELSE f2, aborted |-> FALSE]
          [] action.kind = "cast" ->
                IF s.stats.mana < action.mana_cost
                THEN [state |-> SetDialogue(s, {Line("not_enough_mana", None)}), aborted |-> TRUE]
                ELSE LET paid == [s EXCEPT !.stats.mana = s.stats.mana - action.mana_cost]
                     IN  [state |-> hurt(paid, CalculatePlayerDamage(paid, action.bonus,
                                                                      rnd.roll, rnd.crit)),
                          aborted |-> FALSE]
          [] OTHER -> [state |-> s, aborted |-> FALSE]

\* GameApp._resolve_battle_action once the action's kind has had its effect
AfterAction(done, battle, action, rnd) ==
    IF done.aborted THEN done.state
    ELSE IF done.state.current_battle.enemy_hp <= 0
         THEN HandleVictory(done.state, rnd.loot)
    ELSE EnemyTurn(done.state, battle, rnd.enemy_roll, {Line("resolved", action.label)})

\* a resolver in which an unavailable action forfeits nothing: the enemy does not act
ResolveBattleAction_UnavailableIsFree(s, action, rnd) ==
    LET battle == battles[s.current_battle.spec]
        ammo_cost == Max(0, action.ammo_cost)
        needs_ammo == action.ammo_item # None /\ ammo_cost # 0
        loaded == IF needs_ammo THEN ConsumeInventory(s, action.ammo_item, ammo_cost) ELSE s
        chance == Max(0, Min(100, action.hit_chance))
    IN  IF ~InBattle(s) THEN s
        ELSE IF ~BattleActionAvailable(s, action)
             THEN RefreshBattleActions(SetDialogue(s, {Line("unavailable", action.label)}),
                                       battle)
        ELSE IF needs_ammo /\ Get(s.inventory, action.ammo_item, 0) < ammo_cost
             THEN EnemyTurn(s, battle, rnd.enemy_roll, {Line("out_of_ammo", action.label)})
        ELSE IF action.kind \in {"attack", "cast"} /\ chance < 100 /\ rnd.hit > chance
             THEN EnemyTurn(loaded, battle, rnd.enemy_roll, {Line("misses", action.label)})
        ELSE AfterAction(ActionEffect(loaded, action, rnd), battle, action, rnd)

\* a resolver that takes the ammo only when the shot is on its way to the target
ResolveBattleAction_MissKeepsAmmo(s, action, rnd) ==
    LET battle == battles[s.current_battle.spec]
        ammo_cost == Max(0, action.ammo_cost)
        needs_ammo == action.ammo_item # None /\ ammo_cost # 0
        loaded == IF needs_ammo THEN ConsumeInventory(s, action.ammo_item, ammo_cost) ELSE s
        chance == Max(0, Min(100, action.hit_chance))
    IN  IF ~InBattle(s) THEN s
        ELSE IF ~BattleActionAvailable(s, action)
             THEN EnemyTurn(s, battle, rnd.enemy_roll, {Line("unavailable", action.label)})
        ELSE IF needs_ammo /\ Get(s.inventory, action.ammo_item, 0) < ammo_cost
             THEN EnemyTurn(s, battle, rnd.enemy_roll, {Line("out_of_ammo", action.label)})
        ELSE IF action.kind \in {"attack", "cast"} /\ chance < 100 /\ rnd.hit > chance
             THEN EnemyTurn(s, battle, rnd.enemy_roll, {Line("misses", action.label)})
        ELSE AfterAction(ActionEffect(loaded, action, rnd), battle, action, rnd)

\* GameApp._resolve_battle_action
ResolveBattleAction(s, action, rnd) ==
    LET battle == battles[s.current_battle.spec]
        ammo_cost == Max(0, action.ammo_cost)
        needs_ammo == action.ammo_item # None /\ ammo_cost # 0
        loaded == IF needs_ammo THEN ConsumeInventory(s, action.ammo_item, ammo_cost) ELSE s
        chance == Max(0, Min(100, action.hit_chance))
    IN  IF ~InBattle(s) THEN s
        ELSE IF ~BattleActionAvailable(s, action)
             THEN EnemyTurn(s, battle, rnd.enemy_roll, {Line("unavailable", action.label)})
        ELSE IF needs_ammo /\ Get(s.inventory, action.ammo_item, 0) < ammo_cost
             THEN EnemyTurn(s, battle, rnd.enemy_roll, {Line("out_of_ammo", action.label)})
        ELSE IF action.kind \in {"attack", "cast"} /\ chance < 100 /\ rnd.hit > chance
             THEN EnemyTurn(loaded, battle, rnd.enemy_roll, {Line("misses", action.label)})
        ELSE AfterAction(ActionEffect(loaded, action, rnd), battle, action, rnd)

\* the draws GameApp._resolve_battle_action and _pass_turn may consume
BattleDraws(battle, action) ==
    [hit : IF action.hit_chance < 100 THEN Draws ELSE {0},
     roll : IF action.kind \in {"attack", "cast"} THEN PlayerRolls(action.variance) ELSE {0},
     crit : IF Get(defaults, "CRIT_CHANCE", 0) > 0 THEN Draws ELSE {0},
     enemy_roll : EnemyRolls,
     loot : LootDraws(battle.loot_table, battle.loot_rolls)]


----------------------------------------------------------------------------
(* Option selection and item use *)

\* label.strip().lower().replace(" ", "_") on the labels of the repeat-limited options
NormalizedLabel == [l \in {"Fight the rat"} |-> "fight_the_rat"]

\* f"{room_id}:{label}" on the room ids and normalized labels of those options
JoinedKey == [p \in {<< "vault", "fight_the_rat" >>} |-> "vault:fight_the_rat"]

\* GameApp._battle_repeat_key
BattleRepeatKey(s, option) ==
    IF option.battle_repeat_key # None THEN option.battle_repeat_key
    ELSE JoinedKey[<< IF s.current_room_id # None THEN s.current_room_id ELSE "room",
                      NormalizedLabel[option.label] >>]

\* a repeat limit that lets one battle more be started
FollowOption_OneMore(s, option) ==
    LET limit == option.battle_repeat_limit
        repeat_key == IF limit > 0 THEN BattleRepeatKey(s, option) ELSE None
    IN  IF option.battle_id # None
        THEN IF limit > 0 /\ Get(s.battle_repeat_tracker, repeat_key, 0) > limit
             THEN AppendDialogue(s, {Line("repeat_exhausted", option.label)})
             ELSE IF option.battle_id \notin DOMAIN battles
                  THEN SetDialogue(s, {Line("battle_missing", option.battle_id)})
                  ELSE StartBattle(s, battles[option.battle_id], option.to, repeat_key)
        ELSE IF option.to # None THEN GoTo(s, option.to, FALSE)
        ELSE IF s.requires_refresh
             THEN RefreshCurrentRoomOptions(
                      AppendDialogue(s, {Line("option_result", option.label)}))
             ELSE AppendDialogue(s, {Line("option_result", option.label)})

\* GameApp._handle_room_option once the effects were applied
FollowOption(s, option) ==
    LET limit == option.battle_repeat_limit
        repeat_key == IF limit > 0 THEN BattleRepeatKey(s, option) ELSE None
    IN  IF option.battle_id # None
        THEN IF limit > 0 /\ Get(s.battle_repeat_tracker, repeat_key, 0) >= limit
             THEN AppendDialogue(s, {Line("repeat_exhausted", option.label)})
             ELSE IF option.battle_id \notin DOMAIN battles
                  THEN SetDialogue(s, {Line("battle_missing", option.battle_id)})
                  ELSE StartBattle(s, battles[option.battle_id], option.to, repeat_key)
        ELSE IF option.to # None THEN GoTo(s, option.to, FALSE)
        ELSE IF s.requires_refresh
             THEN RefreshCurrentRoomOptions(
                      AppendDialogue(s, {Line("option_result", option.label)}))
             ELSE AppendDialogue(s, {Line("option_result", option.label)})

\* GameApp._handle_room_option
HandleRoomOption(s, option, rnd) == FollowOption(ApplyOptionEffects(s, option, rnd), option)

\* the stat changes of GameApp._use_item: hp is clamped to [0, max_hp], the other
\* stats are not (an item names hp or max_hp, not both)
UseEffects(st, effects) ==
    [n \in DOMAIN st |->
        IF n \notin DOMAIN effects THEN st[n]
        ELSE IF n = "hp" THEN Min(st.max_hp, Max(0, st[n] + effects[n]))
        ELSE st[n] + effects[n]]

\* GameApp._use_item: the state afterwards and the returned flag
UseItem(s, item_id) ==
    LET definition == ItemDefinition(item_id)
        category == Get(definition, "category", "")
        equip == EquipWeapon(s, item_id, definition)
        used == [s EXCEPT !.stats = UseEffects(s.stats, Get(definition, "effects", EmptyDict))]
    IN  IF item_id \notin DOMAIN s.inventory THEN [state |-> s, used |-> FALSE]
        ELSE IF IsWeaponDefinition(definition)
             THEN [state |-> IF equip.equipped /\ InBattle(s)
                             THEN RefreshBattleActions(equip.state,
                                                       battles[s.current_battle.spec])
                             ELSE equip.state,
                   used |-> equip.equipped]
        ELSE IF category = "ammo" THEN [state |-> s, used |-> FALSE]
        ELSE [state |-> IF category = "consumable" THEN ConsumeInventory(used, item_id, 1)
                        ELSE used,
              used |-> TRUE]

\* GameApp._inventory_activate
InventoryActivate(s, item_id) ==
    LET r == UseItem(s, item_id)
    IN  IF r.used /\ Get(r.state.inventory, item_id, 0) <= 0
        THEN [r.state EXCEPT !.inventory = Pop(r.state.inventory, item_id)]
        ELSE r.state

----------------------------------------------------------------------------
(* The application as a state machine *)

\* the game state as one value
State ==
    [stats |-> stats, inventory |-> inventory, equipment |-> equipment, flags |-> flags,
     timed_flags |-> timed_flags, alert_level |-> alert_level,
     current_room_id |-> current_room_id, current_battle |-> current_battle,
     option_handlers |-> option_handlers,
     pending_room_transition |-> pending_room_transition,
     unique_loot_awards |-> unique_loot_awards,
     battle_repeat_tracker |-> battle_repeat_tracker,
     mana_regen_reserve |-> mana_regen_reserve, dialogue |-> dialogue, history |-> history,
     requires_refresh |-> FALSE]

\* the runs explored: counters that the content lets grow without limit stay bounded
WithinBounds(s) ==
    /\ \A item \in DOMAIN s.inventory : s.inventory[item] <= MaxCount
    /\ \A f \in DOMAIN s.flags : s.flags[f] <= MaxFlag /\ -s.flags[f] <= MaxFlag
    /\ s.alert_level <= MaxAlert
    /\ s.stats.xp <= MaxVictories * Get(defaults, "XP_PER_VICTORY", 0)
    /\ s.stats.mana <= s.stats.max_mana + 2 * MaxCount

\* the variables of the game state
game_vars == << stats, inventory, equipment, flags, timed_flags, alert_level,
                current_room_id, current_battle, option_handlers, pending_room_transition,
                unique_loot_awards, battle_repeat_tracker, mana_regen_reserve, dialogue,
                history >>

\* the game state is s
Holds(s) ==
    /\ stats = s.stats
    /\ inventory = s.inventory
    /\ equipment = s.equipment
    /\ flags = s.flags
    /\ timed_flags = s.timed_flags
    /\ alert_level = s.alert_level
    /\ current_room_id = s.current_room_id
    /\ current_battle = s.current_battle
    /\ option_handlers = s.option_handlers
    /\ pending_room_transition = s.pending_room_transition
    /\ unique_loot_awards = s.unique_loot_awards
    /\ battle_repeat_tracker = s.battle_repeat_tracker
    /\ mana_regen_reserve = s.mana_regen_reserve
    /\ dialogue = s.dialogue
    /\ history = s.history

\* the step leaves the game state s
Leaves(s) ==
    /\ stats' = s.stats
    /\ inventory' = s.inventory
    /\ equipment' = s.equipment
    /\ flags' = s.flags
    /\ timed_flags' = s.timed_flags
    /\ alert_level' = s.alert_level
    /\ current_room_id' = s.current_room_id
    /\ current_battle' = s.current_battle
    /\ option_handlers' = s.option_handlers
    /\ pending_room_transition' = s.pending_room_transition
    /\ unique_loot_awards' = s.unique_loot_awards
    /\ battle_repeat_tracker' = s.battle_repeat_tracker
    /\ mana_regen_reserve' = s.mana_regen_reserve
    /\ dialogue' = s.dialogue
    /\ history' = s.history

\* the game state a handler leaves, with the handler noted in the history; a handler
\* that changes mana without entering a room ends the run of transitions observed
Becomes(s, name, owner, index) ==
    /\ WithinBounds(s)
    /\ Leaves([s EXCEPT !.history.op = [name |-> name, owner |-> owner, index |-> index],
                        !.history.hit = IF name = "resolve_battle_action" THEN @ ELSE 0,
                        !.history.regen =
                            IF name \in {"resolve_battle_action", "inventory_activate"}
                               /\ s.stats.mana # stats.mana
                            THEN << >> ELSE @])
    /\ UNCHANGED << defaults, probe >>

\* GameApp.__init__ up to the initial go_to
Constructed(d) ==
    [stats |-> d.STARTING_STATS, inventory |-> EmptyDict,
     equipment |-> [melee |-> None, ranged |-> None], flags |-> EmptyDict,
     timed_flags |-> EmptyDict, alert_level |-> 0, current_room_id |-> None,
     current_battle |-> NoBattle, option_handlers |-> << >>,
     pending_room_transition |-> None, unique_loot_awards |-> {},
     battle_repeat_tracker |-> EmptyDict, mana_regen_reserve |-> 0, dialogue |-> {},
     history |-> [timer |-> EmptyDict, unique_award_count |-> EmptyDict, regen |-> << >>,
                  hit |-> 0,
                  op |-> [name |-> "init", owner |-> None, index |-> 0]],
     requires_refresh |-> FALSE]

\* no function-level call is being observed
NoProbe == [fn |-> "none"]

\* GameApp.__init__ on one of the content sets: construction, then go_to(start, initial)
InitWith(d) ==
    /\ defaults = d
    /\ probe = NoProbe
    /\ Holds(GoTo(Constructed(d), d.START_ROOM_ID, TRUE))

Init ==
    \/ InitWith(TemplateDefaults)
    \/ InitWith(LabDefaults)
    \/ InitWith(VaultDefaults)
    \/ InitWith(ArenaDefaults)

\* a room option is selected (button or key): GameApp._on_option to _handle_room_option
SelectRoomOption ==
    \E i \in DOMAIN option_handlers :
        LET h == option_handlers[i]
        IN  /\ h.kind = "room_option"
            /\ LET option == rooms[h.owner].options[h.index]
               IN  \E rnd \in EffectDraws(option) :
                      Becomes(HandleRoomOption(State, option, rnd),
                              "handle_room_option", h.owner, h.index)

\* the filler option of a room without options is selected: lambda: None
SelectFiller ==
    \E i \in DOMAIN option_handlers :
        /\ option_handlers[i].kind = "filler"
        /\ Becomes(State, "filler", None, 0)

\* a battle action is selected: GameApp._resolve_battle_action; the history keeps the
\* draw of the hit test
SelectBattleAction ==
    \E i \in DOMAIN option_handlers :
        LET h == option_handlers[i]
        IN  /\ h.kind = "battle_action"
            /\ LET action == battles[h.owner].actions[h.index]
               IN  \E rnd \in BattleDraws(battles[h.owner], action) :
                      Becomes([ResolveBattleAction(State, action, rnd)
                                   EXCEPT !.history.hit = rnd.hit],
                              "resolve_battle_action", h.owner, h.index)

\* the Endure option is selected: GameApp._pass_turn
SelectPassTurn ==
    \E i \in DOMAIN option_handlers :
        /\ option_handlers[i].kind = "pass_turn"
        /\ \E enemy_roll \in EnemyRolls :
              Becomes(PassTurn(State, [enemy_roll |-> enemy_roll]), "pass_turn", None, 0)

\* the Continue option is selected: GameApp._execute_pending_transition
SelectContinue ==
    \E i \in DOMAIN option_handlers :
        /\ option_handlers[i].kind = "continue"
        /\ Becomes(ExecutePendingTransition(State), "execute_pending_transition", None, 0)

\* an inventory entry is activated: GameApp._inventory_activate
ActivateItem ==
    \E item_id \in DOMAIN inventory :
        Becomes(InventoryActivate(State, item_id), "inventory_activate", item_id, 0)

Next ==
    \/ SelectRoomOption
    \/ SelectFiller
    \/ SelectBattleAction
    \/ SelectPassTurn
    \/ SelectContinue
    \/ ActivateItem

Spec == Init /\ [][Next]_vars

----------------------------------------------------------------------------
(* Equipping and unequipping as calls: GameApp._equip_weapon, _unequip_weapon *)

\* a defaults module whose registry holds every weapon above
EquipDefaults == [VaultDefaults EXCEPT !.ITEM_DEFINITIONS = Merge(VaultItems, WEAPON_DEFINITIONS)]

\* the weapons of a registry, and those that go to one slot
Weapons(d) == { w \in DOMAIN d.ITEM_DEFINITIONS : IsWeaponDefinition(d.ITEM_DEFINITIONS[w]) }

SlotWeapons(d, slot) == { w \in Weapons(d) : WeaponSlot(d.ITEM_DEFINITIONS[w]) = slot }

\* the game before the calls: any attack and defence, each slot empty or holding one of
\* its weapons, and a weapon about to be equipped
InitEquip ==
    \E attack \in -MaxStat..MaxStat, defence \in -MaxStat..MaxStat,
       melee \in {None} \cup SlotWeapons(EquipDefaults, "melee"),
       ranged \in {None} \cup SlotWeapons(EquipDefaults, "ranged"),
       item_id \in Weapons(EquipDefaults) :
        /\ defaults = EquipDefaults
        /\ Holds([Constructed(EquipDefaults) EXCEPT
                     !.stats = [EquipDefaults.STARTING_STATS EXCEPT !.attack = attack,
                                                                   !.defence = defence],
                     !.equipment = [melee |-> melee, ranged |-> ranged]])
        /\ probe = [fn |-> "equip", pc |-> "start", item_id |-> item_id,
                    before |-> [EquipDefaults.STARTING_STATS EXCEPT !.attack = attack,
                                                                   !.defence = defence],
                    replaced |-> None, returned |-> FALSE]

\* self._equip_weapon(item_id, self._item_definition(item_id))
Equip ==
    /\ probe.fn = "equip" /\ probe.pc = "start"
    /\ Leaves(EquipWeapon(State, probe.item_id, ItemDefinition(probe.item_id)).state)
    /\ probe' = [probe EXCEPT
                    !.pc = "equipped",
                    !.replaced = Get(equipment, WeaponSlot(ItemDefinition(probe.item_id)), None),
                    !.returned = EquipWeapon(State, probe.item_id,
                                             ItemDefinition(probe.item_id)).equipped]
    /\ UNCHANGED defaults

\* self._unequip_weapon(slot) on the slot of the weapon just equipped
Unequip ==
    /\ probe.fn = "equip" /\ probe.pc = "equipped"
    /\ Leaves(UnequipWeapon(State, WeaponSlot(ItemDefinition(probe.item_id))))
    /\ probe' = [probe EXCEPT !.pc = "unequipped"]
    /\ UNCHANGED defaults

NextEquip == Equip \/ Unequip

SpecEquip == InitEquip /\ [][NextEquip]_vars

----------------------------------------------------------------------------
(* Sequences of equip operations: GameApp._use_item on a weapon and the equip_item *)
(* effect of an option                                                             *)

\* the game with nothing equipped, any attack and defence, and any of the weapons of the
\* registry in the inventory
InitOutfit ==
    \E attack \in -MaxStat..MaxStat, defence \in -MaxStat..MaxStat,
       owned \in SUBSET Weapons(EquipDefaults), count \in 1..MaxCount :
        LET base == [EquipDefaults.STARTING_STATS EXCEPT !.attack = attack,
                                                        !.defence = defence]
        IN  /\ defaults = EquipDefaults
            /\ Holds([Constructed(EquipDefaults) EXCEPT
                         !.stats = base, !.current_room_id = "vault",
                         !.inventory = [w \in owned |-> count]])
            /\ probe = [fn |-> "outfit", base |-> base,
                        last |-> [item_id |-> None, replaced |-> None, equipped |-> FALSE]]

\* a weapon of the inventory is used: self._use_item(item_id)
UseWeapon ==
    /\ probe.fn = "outfit"
    /\ \E item_id \in DOMAIN inventory :
          /\ IsWeaponDefinition(ItemDefinition(item_id))
          /\ Leaves(UseItem(State, item_id).state)
          /\ probe' = [probe EXCEPT !.last =
                          [item_id |-> item_id,
                           replaced |-> Get(equipment, WeaponSlot(ItemDefinition(item_id)),
                                            None),
                           equipped |-> UseItem(State, item_id).used]]
    /\ UNCHANGED defaults

\* an option names a weapon in effects.equip_item, owned or not: the equip_item loop
EquipByOption ==
    /\ probe.fn = "outfit"
    /\ \E item_id \in Weapons(EquipDefaults) :
          LET done == EquipTargets(State, << item_id >>, 1)
          IN  /\ Leaves([done EXCEPT !.requires_refresh = FALSE])
              /\ probe' = [probe EXCEPT !.last =
                              [item_id |-> item_id,
                               replaced |-> Get(equipment,
                                                WeaponSlot(ItemDefinition(item_id)), None),
                               equipped |-> done.requires_refresh]]
    /\ UNCHANGED defaults

NextOutfit == UseWeapon \/ EquipByOption

SpecOutfit == InitOutfit /\ [][NextOutfit]_vars

----------------------------------------------------------------------------
(* Progression Curve: game/xp.py and GameApp._calculate_level_progress *)

XP_LEVEL_REQUIREMENTS == << 50, 90, 140, 200, 270 >>

\* XP_GROWTH_FACTOR, in percent
XP_GROWTH_FACTOR == 125

\* b ** e
RECURSIVE Power(_, _)
Power(b, e) == IF e = 0 THEN 1 ELSE b * Power(b, e - 1)

\* xp._xp_requirement_for_index; the index counts from 0, and the ceiling of the scaled
\* requirement is taken on the exact quotient
XpRequirementForIndex(index) ==
    IF index < Len(XP_LEVEL_REQUIREMENTS) THEN Max(1, XP_LEVEL_REQUIREMENTS[index + 1])
    ELSE IF Len(XP_LEVEL_REQUIREMENTS) = 0 THEN 100
    ELSE LET steps == index - Len(XP_LEVEL_REQUIREMENTS) + 1
             base == XP_LEVEL_REQUIREMENTS[Len(XP_LEVEL_REQUIREMENTS)]
             scale == Power(100, steps)
         IN  Max(1, (base * Power(XP_GROWTH_FACTOR, steps) + scale - 1) \div scale)

\* an entry that takes a negative total as it comes
XpCurveEntry_Unclamped(total_xp) == [xp_remaining |-> total_xp, level |-> 1, index |-> 0]

\* xp.xp_curve up to the loop: the locals
XpCurveEntry(total_xp) == [xp_remaining |-> Max(0, total_xp), level |-> 1, index |-> 0]

\* the result tuple while nothing is returned
NoResult == [level |-> 0, progress |-> 0, target |-> 0]

\* an iteration that lowers the level where it should raise it
XpCurveIterate_LevelDown(frame) ==
    LET requirement == XpRequirementForIndex(frame.index)
    IN  IF frame.xp_remaining < requirement
        THEN [returned |-> TRUE, frame |-> frame,
              result |-> [level |-> frame.level, progress |-> frame.xp_remaining,
                          target |-> requirement]]
        ELSE [returned |-> FALSE,
              frame |-> [xp_remaining |-> frame.xp_remaining - requirement,
                         level |-> frame.level - 1, index |-> frame.index + 1],
              result |-> NoResult]

\* one iteration of the loop of xp.xp_curve
XpCurveIterate(frame) ==
    LET requirement == XpRequirementForIndex(frame.index)
    IN  IF frame.xp_remaining < requirement
        THEN [returned |-> TRUE, frame |-> frame,
              result |-> [level |-> frame.level, progress |-> frame.xp_remaining,
                          target |-> requirement]]
        ELSE [returned |-> FALSE,
              frame |-> [xp_remaining |-> frame.xp_remaining - requirement,
                         level |-> frame.level + 1, index |-> frame.index + 1],
              result |-> NoResult]

\* the increases of total xp between the first call and the second
XpDeltas == {0, 1, 45, 338}

\* a call of the curve: directly, or by GameApp._calculate_level_progress, which hands
\* it max(0, stats.xp)
XpCall(caller, total_xp, first) ==
    [fn |-> "xp_curve", caller |-> caller, pc |-> "loop", total_xp |-> total_xp,
     frame |-> XpCurveEntry(IF caller = "calculate_level_progress" THEN Max(0, total_xp)
                            ELSE total_xp),
     result |-> NoResult, first |-> first]

InitXp ==
    \E caller \in {"xp_curve", "calculate_level_progress"}, total_xp \in -3..MaxXp :
        /\ defaults = TemplateDefaults
        /\ Holds(Constructed(TemplateDefaults))
        /\ probe = XpCall(caller, total_xp, [total_xp |-> 0, level |-> 0])

\* the loop of xp.xp_curve runs once more, or returns
XpCurveStep ==
    /\ probe.fn = "xp_curve" /\ probe.pc = "loop"
    /\ probe' = [probe EXCEPT !.frame = XpCurveIterate(probe.frame).frame,
                              !.result = XpCurveIterate(probe.frame).result,
                              !.pc = IF XpCurveIterate(probe.frame).returned
                                     THEN "returned" ELSE "loop"]
    /\ UNCHANGED << defaults, game_vars >>

\* GameApp._calculate_level_progress takes the returned tuple
CalculateLevelProgress ==
    /\ probe.fn = "xp_curve" /\ probe.pc = "returned"
    /\ probe.caller = "calculate_level_progress"
    /\ probe' = [probe EXCEPT !.pc = "shown",
                              !.result = [level |-> Max(1, probe.result.level),
                                          progress |-> Max(0, probe.result.progress),
                                          target |-> Max(1, probe.result.target)]]
    /\ UNCHANGED << defaults, game_vars >>

\* the curve is called a second time, on a total that is no lower
XpCurveAgain ==
    /\ probe.fn = "xp_curve"
    /\ probe.pc = IF probe.caller = "calculate_level_progress" THEN "shown" ELSE "returned"
    /\ probe.first.level = 0
    /\ \E d \in XpDeltas :
          probe' = XpCall(probe.caller, probe.total_xp + d,
                          [total_xp |-> probe.total_xp, level |-> probe.result.level])
    /\ UNCHANGED << defaults, game_vars >>

NextXp == XpCurveStep \/ CalculateLevelProgress \/ XpCurveAgain

\* a call that has started keeps running
SpecXp == InitXp /\ [][NextXp]_vars /\ WF_vars(NextXp)

----------------------------------------------------------------------------
(* Player damage as a call: GameApp._calculate_player_damage *)

\* the call's inputs: attack, bonus and the enemy's defence of either sign, a roll, a
\* battle in progress or none, and a crit draw against a chance of 0 or 50 percent
InitDamage ==
    \E attack \in -MaxStat..MaxStat, bonus \in -MaxStat..MaxStat, roll \in 0..MaxStat,
       defence \in -MaxStat..MaxStat, in_battle \in BOOLEAN,
       crit_chance \in {0, 50}, crit_draw \in Draws :
        /\ defaults = [TemplateDefaults EXCEPT !.CRIT_CHANCE = crit_chance]
        /\ Holds(Constructed(TemplateDefaults))
        /\ probe = [fn |-> "calculate_player_damage", pc |-> "called", attack |-> attack,
                    bonus |-> bonus, roll |-> roll, in_battle |-> in_battle,
                    defence |-> defence, crit_draw |-> crit_draw, damage |-> 0]

\* the call returns
ReturnDamage ==
    /\ probe.fn = "calculate_player_damage" /\ probe.pc = "called"
    /\ probe' = [probe EXCEPT
                    !.pc = "returned",
                    !.damage = PlayerDamage(probe.attack, probe.bonus, probe.roll,
                                            probe.in_battle, probe.defence,
                                            Get(defaults, "CRIT_CHANCE", 0), probe.crit_draw,
                                            Get(defaults, "CRIT_MULTIPLIER", 150))]
    /\ UNCHANGED << defaults, game_vars >>

NextDamage == ReturnDamage

SpecDamage == InitDamage /\ [][NextDamage]_vars

----------------------------------------------------------------------------
(* Graph Validator: text_adventure/engine/validator.py *)

\* a returned message: which f-string it is, and the values it is formatted with
Message(kind, owner, label, id) == [kind |-> kind, owner |-> owner, label |-> label, id |-> id]

\* the "ok" of a check that found nothing
OkMessage == Message("ok", None, None, None)

\* the message of the first check that did not return "ok"
FirstFailure(messages) ==
    IF \E i \in DOMAIN messages : messages[i].kind # "ok"
    THEN messages[CHOOSE i \in DOMAIN messages :
                     /\ messages[i].kind # "ok"
                     /\ \A k \in 1..(i - 1) : messages[k].kind = "ok"]
    ELSE OkMessage

\* the keys of the rooms dict, which the sequence lists in the dict's order
RoomIds(room_seq) == { room_seq[i].id : i \in DOMAIN room_seq }

\* the body of the loop of validator._validate_assets for one room
AssetCheck(room, images, sounds) ==
    IF room.background_key # None /\ room.background_key \notin images
    THEN Message("missing_background", room.id, None, room.background_key)
    ELSE IF room.music_key # None /\ room.music_key \notin sounds
         THEN Message("missing_music", room.id, None, room.music_key)
    ELSE OkMessage

\* validator._validate_assets
ValidateAssets(content) ==
    FirstFailure([i \in DOMAIN content.rooms |->
                     AssetCheck(content.rooms[i], content.images, content.sounds)])

\* a loop body that lets an option lead to a room that does not exist
OptionCheck_AnyTarget(room, option, content) == OkMessage

\* the body of the inner loop of validator._validate_graph for one option
OptionCheck(room, option, content) ==
    LET ids == RoomIds(content.rooms)
        battle == content.battles[option.battle_id]
        defeat_target == IF battle.defeat_to # None THEN battle.defeat_to
                         ELSE content.DEFEAT_ROOM_ID
    IN  IF option.to # None /\ option.to \notin ids
        THEN Message("missing_room", room.id, option.label, option.to)
        ELSE IF option.battle_id = None THEN OkMessage
        ELSE IF option.battle_id \notin DOMAIN content.battles
             THEN Message("missing_battle", room.id, option.label, option.battle_id)
        ELSE IF battle.victory_to # None /\ battle.victory_to \notin ids
             THEN Message("victory_to_missing", battle.id, None, battle.victory_to)
        ELSE IF battle.defeat_to # None /\ battle.defeat_to \notin ids
             THEN Message("defeat_to_missing", battle.id, None, battle.defeat_to)
        ELSE IF defeat_target # None /\ defeat_target \notin ids
             THEN Message("defeat_target_missing", battle.id, None, defeat_target)
        ELSE OkMessage

\* edges without the room a lost battle leads to
OptionEdges_NoDefeat(option, content) ==
    LET battle == content.battles[option.battle_id]
    IN  ({option.to} \ {None})
        \cup (IF option.battle_id = None THEN {} ELSE {battle.victory_to} \ {None})

\* the edges validator._validate_graph adds to adjacency for one option
OptionEdges(option, content) ==
    LET battle == content.battles[option.battle_id]
        defeat_target == IF battle.defeat_to # None THEN battle.defeat_to
                         ELSE content.DEFEAT_ROOM_ID
    IN  ({option.to} \ {None})
        \cup (IF option.battle_id = None THEN {}
              ELSE ({battle.victory_to} \ {None}) \cup ({defeat_target} \ {None}))

\* adjacency as built when every check passes
Adjacency(content) ==
    [id \in RoomIds(content.rooms) |->
        UNION { UNION { OptionEdges(content.rooms[i].options[j], content) :
                           j \in DOMAIN content.rooms[i].options } :
                   i \in { k \in DOMAIN content.rooms : content.rooms[k].id = id } }]

\* the rooms the stack loop of validator._validate_graph visits
RECURSIVE Visited(_, _)
Visited(visited, adjacency) ==
    LET reached == visited \cup UNION { Get(adjacency, id, {}) : id \in visited }
    IN  IF reached = visited THEN visited ELSE Visited(reached, adjacency)

\* validator._validate_graph
ValidateGraph(content) ==
    LET checked == FirstFailure(
                       [i \in DOMAIN content.rooms |->
                           FirstFailure([j \in DOMAIN content.rooms[i].options |->
                                            OptionCheck(content.rooms[i],
                                                        content.rooms[i].options[j],
                                                        content)])])
        unreachable == RoomIds(content.rooms)
                           \ Visited({content.START_ROOM_ID}, Adjacency(content))
    IN  IF content.START_ROOM_ID \notin RoomIds(content.rooms)
        THEN Message("start_missing", None, None, content.START_ROOM_ID)
        ELSE IF checked.kind # "ok" THEN checked
        ELSE IF unreachable # {} THEN Message("unreachable", None, None, unreachable)
        ELSE OkMessage

\* validator.validate: the returned flag and message
Validate(content) ==
    IF ValidateAssets(content).kind # "ok"
    THEN [ok |-> FALSE, message |-> ValidateAssets(content)]
    ELSE IF ValidateGraph(content).kind # "ok"
         THEN [ok |-> FALSE, message |-> ValidateGraph(content)]
    ELSE [ok |-> TRUE, message |-> Message("passed", None, None, None)]

\* the room ids the options of a content model lead to that are not rooms
MissingTargets(content) ==
    UNION { { content.rooms[i].options[j].to : j \in DOMAIN content.rooms[i].options } :
               i \in DOMAIN content.rooms }
        \ (RoomIds(content.rooms) \cup {None})

\* the option of the validated content models: a target, a battle, or both
ValidatedOption(label, to, battle_id) == [label |-> label, to |-> to, battle_id |-> battle_id]

\* a content model: two rooms whose assets, targets and battles may or may not exist, a
\* third room without options, a battle whose victory and defeat rooms may be missing, a
\* defeat fallback that may be absent, and a start room
SampleContent(background_key, music_key, to1, battle1, to2, battle2, back, victory_to, defeat_to, defeat_fallback, start) ==
    [rooms |-> << [id |-> "hall", background_key |-> background_key, music_key |-> None,
                   options |-> << ValidatedOption("Descend", to1, battle1),
                                  ValidatedOption("Search", to2, battle2) >>],
                  [id |-> "crypt", background_key |-> None, music_key |-> music_key,
                   options |-> << ValidatedOption("Climb", back, None) >>],
                  [id |-> "tomb", background_key |-> None, music_key |-> None,
                   options |-> << >>] >>,
     images |-> {"hall_bg"}, sounds |-> {},
     battles |-> [goblin |-> [id |-> "goblin", victory_to |-> victory_to,
                              defeat_to |-> defeat_to]],
     START_ROOM_ID |-> start, DEFEAT_ROOM_ID |-> defeat_fallback]

\* the content models validated
InitValidate ==
    \E background_key \in {None, "hall_bg", "lost_bg"}, music_key \in {None, "lost_tune"},
       to1 \in {None, "crypt", "void"}, battle1 \in {None, "goblin", "ghost"},
       to2 \in {None, "crypt", "tomb", "abyss"}, battle2 \in {None, "goblin"},
       back \in {"hall", "void"}, victory_to \in {None, "crypt", "nowhere"},
       defeat_to \in {None, "tomb", "gone"}, defeat_fallback \in {None, "hall", "tomb"},
       start \in {"hall", "crypt", "cellar"} :
        /\ defaults = TemplateDefaults
        /\ Holds(Constructed(TemplateDefaults))
        /\ probe = [fn |-> "validate", pc |-> "called",
                    content |-> SampleContent(background_key, music_key, to1, battle1, to2,
                                              battle2, back, victory_to, defeat_to,
                                              defeat_fallback, start),
                    result |-> [ok |-> FALSE, message |-> OkMessage]]

\* validator.validate returns
ReturnValidate ==
    /\ probe.fn = "validate" /\ probe.pc = "called"
    /\ probe' = [probe EXCEPT !.pc = "returned", !.result = Validate(probe.content)]
    /\ UNCHANGED << defaults, game_vars >>

NextValidate == ReturnValidate

SpecValidate == InitValidate /\ [][NextValidate]_vars

----------------------------------------------------------------------------
(* Play of a validated content model: the room and battle lookups of GameApp.go_to, *)
(* _handle_room_option, _handle_victory, _handle_defeat and                         *)
(* _execute_pending_transition, for any outcome of the battles                      *)

\* self.rooms.get(room_id) finds a room
RoomFound(content, room_id) == room_id \in RoomIds(content.rooms)

\* self.rooms[room_id]
RoomOf(content, room_id) ==
    content.rooms[CHOOSE i \in DOMAIN content.rooms : content.rooms[i].id = room_id]

\* GameApp.go_to as far as the lookup goes: a room that is missing is not entered
LookupGoTo(s, content, room_id) ==
    IF ~RoomFound(content, room_id)
    THEN [state |-> SetDialogue(s, {Line("room_missing", room_id)}), miss |-> room_id]
    ELSE [state |-> [s EXCEPT !.current_room_id = room_id, !.current_battle = NoBattle],
          miss |-> None]

\* GameApp._handle_room_option as far as the lookups go: the battle of the option is
\* started, else its room is entered
LookupOption(s, content, option) ==
    IF option.battle_id # None
    THEN IF option.battle_id \notin DOMAIN content.battles
         THEN [state |-> SetDialogue(s, {Line("battle_missing", option.battle_id)}),
               miss |-> option.battle_id]
         ELSE [state |-> [s EXCEPT !.current_battle =
                              [NoBattle EXCEPT !.spec = option.battle_id,
                                               !.option_to = option.to]],
               miss |-> None]
    ELSE IF option.to # None THEN LookupGoTo(s, content, option.to)
    ELSE [state |-> s, miss |-> None]

\* next_room of GameApp._handle_victory
VictoryRoom(s, content) ==
    LET battle == content.battles[s.current_battle.spec]
    IN  IF battle.victory_to # None THEN battle.victory_to
        ELSE IF s.current_battle.option_to # None THEN s.current_battle.option_to
        ELSE s.current_room_id

\* a defeat that prefers the DEFEAT_ROOM_ID of the defaults to the battle's defeat_to
DefeatRoom_FallbackFirst(s, content, has_defeat_room) ==
    LET battle == content.battles[s.current_battle.spec]
    IN  IF has_defeat_room /\ content.DEFEAT_ROOM_ID # None THEN content.DEFEAT_ROOM_ID
        ELSE IF battle.defeat_to # None THEN battle.defeat_to
        ELSE content.START_ROOM_ID

\* defeat_room of GameApp._handle_defeat; defaults without a DEFEAT_ROOM_ID give the
\* start room, an empty DEFEAT_ROOM_ID gives none
DefeatRoom(s, content, has_defeat_room) ==
    LET battle == content.battles[s.current_battle.spec]
    IN  IF battle.defeat_to # None THEN battle.defeat_to
        ELSE IF ~has_defeat_room THEN content.START_ROOM_ID
        ELSE content.DEFEAT_ROOM_ID

\* GameApp.__init__ with a content model and its initial go_to; the validator has been
\* run on the same content
InitPlay ==
    \E to1 \in {None, "crypt", "void"}, battle1 \in {None, "goblin", "ghost"},
       to2 \in {None, "crypt", "tomb", "abyss"}, battle2 \in {None, "goblin"},
       back \in {"hall", "void"}, victory_to \in {None, "crypt", "nowhere"},
       defeat_to \in {None, "tomb", "gone"},
       defeat_fallback \in {None, "hall", "tomb", "limbo"},
       start \in {"hall", "crypt", "cellar"}, has_defeat_room \in BOOLEAN :
        LET content == SampleContent(None, None, to1, battle1, to2, battle2, back,
                                     victory_to, defeat_to, defeat_fallback, start)
            entered == LookupGoTo(Constructed(TemplateDefaults), content, start)
        IN  /\ has_defeat_room \/ defeat_fallback = None
            /\ defaults = TemplateDefaults
            /\ Holds(entered.state)
            /\ probe = [fn |-> "play", content |-> content,
                        has_defeat_room |-> has_defeat_room,
                        validated |-> Validate(content).ok,
                        miss |-> entered.miss, last |-> "init"]

\* an option of the current room is selected
PlayOption ==
    /\ probe.fn = "play"
    /\ current_room_id # None /\ ~InBattle(State) /\ probe.last # "battle_over"
    /\ \E j \in DOMAIN RoomOf(probe.content, current_room_id).options :
          LET done == LookupOption(State, probe.content,
                                   RoomOf(probe.content, current_room_id).options[j])
          IN  /\ Leaves(done.state)
              /\ probe' = [probe EXCEPT !.miss = done.miss, !.last = "option"]
    /\ UNCHANGED defaults

\* the battle ends, in victory or in defeat: the next room waits behind Continue
PlayBattleOver ==
    /\ probe.fn = "play" /\ InBattle(State)
    /\ \E won \in BOOLEAN :
          Leaves([State EXCEPT
                     !.current_battle = NoBattle,
                     !.pending_room_transition =
                         IF won THEN VictoryRoom(State, probe.content)
                         ELSE DefeatRoom(State, probe.content, probe.has_defeat_room)])
    /\ probe' = [probe EXCEPT !.miss = None, !.last = "battle_over"]
    /\ UNCHANGED defaults

\* Continue is selected: GameApp._execute_pending_transition
PlayContinue ==
    /\ probe.fn = "play" /\ probe.last = "battle_over"
    /\ LET taken == [State EXCEPT !.pending_room_transition = None]
           done == IF pending_room_transition # None
                   THEN LookupGoTo(taken, probe.content, pending_room_transition)
                   ELSE [state |-> taken, miss |-> None]
       IN  /\ Leaves(done.state)
           /\ probe' = [probe EXCEPT !.miss = done.miss, !.last = "continue"]
    /\ UNCHANGED defaults

NextPlay == PlayOption \/ PlayBattleOver \/ PlayContinue

SpecPlay == InitPlay /\ [][NextPlay]_vars

----------------------------------------------------------------------------
(* The battle options as a call: GameApp._refresh_battle_actions *)

\* the game in a battle whose action list is `fillers` plain attacks followed by one
\* action with any weapon and ammo requirement, with any weapons equipped and any
\* number of arrows held
InitAvailable ==
    \E melee \in {None, "club", "ward_blade"}, ranged \in {None, "wooden_bow"},
       arrows \in 0..MaxCount, fillers \in {0, OptionButtons},
       requires_weapon_type \in {None, "melee", "ranged", "thrown"},
       requires_weapon_id \in {None, "club", "wooden_bow"},
       ammo_item \in {None, "arrow"}, ammo_cost \in -1..MaxCount,
       show_if_unavailable \in BOOLEAN :
        /\ defaults = ArenaDefaults
        /\ Holds([Constructed(ArenaDefaults) EXCEPT
                     !.current_room_id = "camp",
                     !.equipment = [melee |-> melee, ranged |-> ranged],
                     !.inventory = IF arrows = 0 THEN EmptyDict ELSE [arrow |-> arrows],
                     !.current_battle = [spec |-> "ogre_bout", option_to |-> None,
                                         enemy_hp |-> ogre_bout.enemy.hp,
                                         repeat_key |-> None]])
        /\ probe = [fn |-> "refresh_battle_actions", pc |-> "called", at |-> fillers + 1,
                    battle |-> [ogre_bout EXCEPT !.actions =
                                   [i \in 1..fillers |-> BattleAction([label |-> "Strike"])]
                                   \o << BattleAction(
                                            [label |-> "Special",
                                             requires_weapon_type |-> requires_weapon_type,
                                             requires_weapon_id |-> requires_weapon_id,
                                             ammo_item |-> ammo_item, ammo_cost |-> ammo_cost,
                                             show_if_unavailable |-> show_if_unavailable]) >>],
                    available |-> FALSE, options |-> << >>]

\* _refresh_battle_actions(battle) returns: the buttons are set; the call record keeps
\* what _battle_action_available returned for the action and the options list built
ReturnAvailable ==
    /\ probe.fn = "refresh_battle_actions" /\ probe.pc = "called"
    /\ Leaves(RefreshBattleActions(State, probe.battle))
    /\ probe' = [probe EXCEPT !.pc = "returned",
                              !.available = BattleActionAvailable(
                                                State, probe.battle.actions[probe.at]),
                              !.options = BattleOptions(State, probe.battle)]
    /\ UNCHANGED defaults

NextAvailable == ReturnAvailable

SpecAvailable == InitAvailable /\ [][NextAvailable]_vars

----------------------------------------------------------------------------
(* The Requirement Evaluator as a call: GameApp._evaluate_requirement *)

\* something that is not a dict (None, a number, a string, a list)
NotADict == [not_a_dict |-> TRUE]

\* well-formed nodes with one recognized key and no sub-expressions
LeafSamples ==
    << [flag |-> "ward"], [flag |-> "heat"], [not_flag |-> "ward"], [not_flag |-> "heat"],
       [min |-> EmptyDict], [min |-> [ward |-> 1]], [min |-> [heat |-> 0]],
       [min |-> [heat |-> -1]], [min |-> [ward |-> MaxFlag, heat |-> 1]] >>
    \o [n \in 1..(MaxAlert + 1) |-> [alert_below |-> n - 1]]

\* well-formed nodes with two recognized keys whose payloads disagree in some state
SeveralKeySamples ==
    << [flag |-> "ward", not_flag |-> "ward"],
       [not_flag |-> "heat", min |-> [heat |-> 1]],
       [min |-> [ward |-> 1], alert_below |-> 0],
       [alert_below |-> 0, all |-> << >>],
       [all |-> << [flag |-> "ward"] >>, any |-> << [not_flag |-> "ward"] >>],
       [flag |-> "heat", any |-> << [not_flag |-> "heat"] >>] >>

\* absent, no recognized key, or a recognized key with a malformed payload
MalformedSamples ==
    << NotADict, EmptyDict, [bogus |-> 1], [min |-> NotADict],
       [all |-> << NotADict >>], [any |-> << NotADict >>],
       [all |-> << NotADict, NotADict >>], [any |-> << NotADict, NotADict >>] >>

\* a list of zero, one or two leaves: 0 stands for no element
SampleList(i, j) ==
    (IF i = 0 THEN << >> ELSE << LeafSamples[i] >>)
    \o (IF j = 0 THEN << >> ELSE << LeafSamples[j] >>)

\* the requirement tree of a shape built over the leaves i and j
RequirementSample(shape, i, j) ==
    CASE shape = "leaf" -> LeafSamples[IF i = 0 THEN 1 ELSE i]
      [] shape = "several" -> SeveralKeySamples[1 + ((i + j) % Len(SeveralKeySamples))]
      [] shape = "all" -> [all |-> SampleList(i, j)]
      [] shape = "any" -> [any |-> SampleList(i, j)]
      [] shape = "all_of_any" -> [all |-> << [any |-> SampleList(i, j)], LeafSamples[1] >>]
      [] shape = "any_of_all" -> [any |-> << [all |-> SampleList(i, j)], LeafSamples[2] >>]
      [] shape = "malformed" -> MalformedSamples[1 + ((i + j) % Len(MalformedSamples))]

\* the evaluator is about to be called, for an option guarded by the expression, in a
\* game whose flags hold values that set_flag, effects.set and effects.inc write
InitRequirement ==
    \E ward \in 0..MaxFlag, heat \in -2..MaxFlag, level \in 0..MaxAlert,
       shape \in {"leaf", "several", "all", "any", "all_of_any", "any_of_all", "malformed"},
       i \in 0..Len(LeafSamples), j \in 0..Len(LeafSamples) :
        /\ defaults = LabDefaults
        /\ Holds([Constructed(LabDefaults) EXCEPT
                     !.current_room_id = "cell",
                     !.alert_level = level,
                     !.flags = Merge(IF ward = 0 THEN EmptyDict ELSE [ward |-> ward],
                                     IF heat = -2 THEN EmptyDict ELSE [heat |-> heat])])
        /\ probe = [fn |-> "evaluate_requirement", pc |-> "called",
                    expr |-> RequirementSample(shape, i, j),
                    well_formed |-> shape # "malformed",
                    result |-> FALSE, offered |-> FALSE]

\* _option_available(option) and _evaluate_requirement(expr) return
ReturnRequirement ==
    /\ probe.fn = "evaluate_requirement" /\ probe.pc = "called"
    /\ probe' = [probe EXCEPT
                    !.pc = "returned",
                    !.result = EvaluateRequirement(State, probe.expr),
                    !.offered = OptionAvailable(State, OptionSpec([label |-> "Guarded",
                                                                   require_expr |-> probe.expr]))]
    /\ UNCHANGED << defaults, game_vars >>

NextRequirement == ReturnRequirement

SpecRequirement == InitRequirement /\ [][NextRequirement]_vars

----------------------------------------------------------------------------
(* The Loot Resolver as a call: GameApp._roll_loot_table *)

\* loot tables: empty; a unique entry with a chance before a guaranteed one; an entry
\* with chance 0 before entries with a chance; two unique entries sharing a key
LootTableSamples ==
    << << >>,
       << [item |-> "gem", chance |-> 50, unique |-> TRUE], [item |-> "tonic"] >>,
       << [item |-> "ruby", chance |-> 0], [item |-> "arrow", chance |-> 50] >>,
       << [item |-> "gem", unique |-> TRUE, unique_key |-> "stone"],
          [item |-> "ruby", unique |-> TRUE, unique_key |-> "stone"],
          [item |-> "salve", chance |-> 50] >> >>

\* the roll is about to be made: any sample table, any configured rolls, unique keys
\* awarded before or not, and any draws
InitLoot ==
    \E t \in DOMAIN LootTableSamples, rolls \in -1..MaxCount,
       unique \in SUBSET {"gem", "stone"} :
        \E draws \in LootDraws(LootTableSamples[t], rolls) :
            /\ defaults = VaultDefaults
            /\ Holds([Constructed(VaultDefaults) EXCEPT
                         !.current_room_id = "vault",
                         !.unique_loot_awards = unique])
            /\ probe = [fn |-> "roll_loot_table", pc |-> "called",
                        table |-> LootTableSamples[t], rolls |-> rolls, draws |-> draws,
                        unique |-> unique, awards |-> << >>]

\* _roll_loot_table(table, rolls) returns
ReturnLoot ==
    /\ probe.fn = "roll_loot_table" /\ probe.pc = "called"
    /\ LET rolled == RollLootTable(State, probe.table, probe.rolls, probe.draws)
       IN  /\ Leaves(rolled.state)
           /\ probe' = [probe EXCEPT !.pc = "returned", !.awards = rolled.awards]
    /\ UNCHANGED defaults

NextLoot == ReturnLoot

SpecLoot == InitLoot /\ [][NextLoot]_vars

----------------------------------------------------------------------------
(* The Effects Applier as a call: GameApp._apply_option_effects *)

\* an option is about to be applied: it may set a flag, clear a flag, write flags
\* through effects.set and carry effects.timer_rooms (0 stands for an absent key); the
\* ward may be lit, and timed, before
InitEffects ==
    \E set_flag \in {None, "ward", "torch"}, clear_flag \in {None, "ward"},
       set \in {"none", "ward", "torch"}, timer_rooms \in 0..MaxTimer,
       ward \in 0..MaxFlag, timer \in 0..MaxTimer :
        /\ ward = 0 => timer = 0
        /\ defaults = LabDefaults
        /\ Holds([Constructed(LabDefaults) EXCEPT
                     !.current_room_id = "cell",
                     !.flags = IF ward = 0 THEN EmptyDict ELSE [ward |-> ward],
                     !.timed_flags = IF timer = 0 THEN EmptyDict ELSE [ward |-> timer]])
        /\ probe = [fn |-> "apply_option_effects", pc |-> "called",
                    option |-> OptionSpec(
                        [label |-> "Tend the flames", set_flag |-> set_flag,
                         clear_flag |-> clear_flag,
                         effects |-> Merge(IF set = "none" THEN EmptyDict
                                           ELSE [set |-> IF set = "ward" THEN [ward |-> 1]
                                                         ELSE [torch |-> 1]],
                                           IF timer_rooms = 0 THEN EmptyDict
                                           ELSE [timer_rooms |-> timer_rooms])])]

\* _apply_option_effects(option) returns
ReturnEffects ==
    /\ probe.fn = "apply_option_effects" /\ probe.pc = "called"
    /\ \E rnd \in EffectDraws(probe.option) :
          Leaves(ApplyOptionEffects(State, probe.option, rnd))
    /\ probe' = [probe EXCEPT !.pc = "returned"]
    /\ UNCHANGED defaults

NextEffects == ReturnEffects

SpecEffects == InitEffects /\ [][NextEffects]_vars

----------------------------------------------------------------------------
(* A battle option as a call: GameApp._handle_room_option *)

\* the player stands in the camp with some victories in the ring behind them (their xp
\* and the ogre's arrows); the option that enters the ring is about to be handled: it may
\* carry a repeat limit and, as any option, items, a flag and effects
InitHandle ==
    \E victories \in 0..MaxVictories, limit \in 0..MaxVictories,
       gain \in {0, 1}, set_flag \in {None, "challenged"}, alert \in {0, 1},
       energy_cost \in {0, 1} :
        LET camp == GoTo(Constructed(ArenaDefaults), "camp", TRUE)
        IN  /\ defaults = ArenaDefaults
            /\ Holds([camp EXCEPT
                         !.battle_repeat_tracker =
                             IF victories = 0 \/ limit = 0 THEN EmptyDict
                             ELSE [ring |-> victories],
                         !.stats.xp = victories * ArenaDefaults.XP_PER_VICTORY,
                         !.inventory = IF victories = 0 THEN EmptyDict
                                       ELSE [arrow |-> Min(victories, MaxCount)]])
            /\ probe = [fn |-> "handle_room_option", pc |-> "called",
                        option |-> OptionSpec(
                            [label |-> "Enter the ring", battle_id |-> "ogre_bout",
                             to |-> "gallery", battle_repeat_limit |-> limit,
                             battle_repeat_key |-> "ring",
                             gain_items |-> IF gain = 1 THEN << "salve" >> ELSE << >>,
                             set_flag |-> set_flag,
                             effects |-> Merge(IF alert = 0 THEN EmptyDict
                                               ELSE [alert |-> alert],
                                               IF energy_cost = 0 THEN EmptyDict
                                               ELSE [energy_cost |-> energy_cost])])]

\* _handle_room_option(option) returns
ReturnHandle ==
    /\ probe.fn = "handle_room_option" /\ probe.pc = "called"
    /\ \E rnd \in EffectDraws(probe.option) :
          Leaves(HandleRoomOption(State, probe.option, rnd))
    /\ probe' = [probe EXCEPT !.pc = "returned"]
    /\ UNCHANGED defaults

NextHandle == ReturnHandle

SpecHandle == InitHandle /\ [][NextHandle]_vars

----------------------------------------------------------------------------
(* Loading: game/defaults.py, engine/loader.py and main.main *)

\* most content files of one kind in the models loaded
MaxFiles == 3

\* the ids the files of a directory define, in the sorted order of the file names
FileIds(ids) == UNION { [1..n -> ids] : n \in 0..MaxFiles }

\* the first file whose id an earlier file has defined, or 0
FirstDuplicate(files) ==
    IF \E j \in DOMAIN files : \E i \in 1..(j - 1) : files[i] = files[j]
    THEN CHOOSE j \in DOMAIN files :
            /\ \E i \in 1..(j - 1) : files[i] = files[j]
            /\ \A k \in 1..(j - 1) : \A i \in 1..(k - 1) : files[i] # files[k]
    ELSE 0

\* loader.load_rooms and loader.load_battles: the dict by id, or the LoaderError raised
LoadFiles(files, kind) ==
    IF FirstDuplicate(files) # 0
    THEN [error |-> Message("duplicate_" \o kind, None, None, files[FirstDuplicate(files)]),
          loaded |-> {}]
    ELSE [error |-> OkMessage, loaded |-> Range(files)]

\* the program is started: items.py defines any of two items, one of which weapons.py
\* defines too, and the levels and battle_loops directories hold any files
InitLoad ==
    \E base \in SUBSET {"tonic", "wooden_bow"},
       room_files \in FileIds({"start", "armory"}),
       battle_files \in FileIds({"goblin_trial"}) :
        /\ defaults = TemplateDefaults
        /\ Holds(Constructed(TemplateDefaults))
        /\ probe = [fn |-> "main", pc |-> "import_defaults",
                    BASE_ITEM_DEFINITIONS |->
                        [id \in base |-> [category |-> "consumable", effects |-> EmptyDict]],
                    room_files |-> room_files, battle_files |-> battle_files,
                    ITEM_DEFINITIONS |-> EmptyDict, rooms |-> {}, battles |-> {},
                    error |-> OkMessage]

\* from game import defaults: ITEM_DEFINITIONS = {**BASE_ITEM_DEFINITIONS, **WEAPON_DEFINITIONS}
ImportDefaults ==
    /\ probe.fn = "main" /\ probe.pc = "import_defaults"
    /\ probe' = [probe EXCEPT !.pc = "load_rooms",
                              !.ITEM_DEFINITIONS =
                                  Merge(probe.BASE_ITEM_DEFINITIONS, WEAPON_DEFINITIONS)]
    /\ UNCHANGED << defaults, game_vars >>

\* loader.load_all: load_rooms returns or raises
LoadRooms ==
    /\ probe.fn = "main" /\ probe.pc = "load_rooms"
    /\ LET r == LoadFiles(probe.room_files, "room")
       IN  probe' = [probe EXCEPT !.pc = IF r.error.kind = "ok" THEN "load_battles"
                                         ELSE "raised",
                                  !.rooms = r.loaded, !.error = r.error]
    /\ UNCHANGED << defaults, game_vars >>

\* loader.load_all: load_battles returns or raises
LoadBattles ==
    /\ probe.fn = "main" /\ probe.pc = "load_battles"
    /\ LET r == LoadFiles(probe.battle_files, "battle")
       IN  probe' = [probe EXCEPT !.pc = IF r.error.kind = "ok" THEN "loaded" ELSE "raised",
                                  !.battles = r.loaded, !.error = r.error]
    /\ UNCHANGED << defaults, game_vars >>

NextLoad == ImportDefaults \/ LoadRooms \/ LoadBattles

SpecLoad == InitLoad /\ [][NextLoad]_vars

----------------------------------------------------------------------------
(* The transition guard: GameApp._on_option and _execute_with_transition *)

\* most selections accepted in one behaviour
MaxSelections == 3

\* an event the window handled: what it was and what came of it
Event(name, index, accepted, raised) ==
    [event |-> name, index |-> index, accepted |-> accepted, raised |-> raised]

\* a selection that is let through while a transition is running
Accepts_Reentrant(p, index, handlers) == index < Len(handlers)

\* the selection of option `index` (from 0) is let through: _on_option returns while a
\* transition is running or when the index has no handler, and
\* _execute_with_transition, with a fade, returns while one is running
Accepts(p, index, handlers) ==
    /\ ~p._transition_running
    /\ ~(index >= Len(handlers))
    /\ p.fade => ~p._transition_running

\* the handler of option `index` is called and returns or raises; as a callable it is
\* opaque: the history records which one ran, and it may leave one Continue option
HandlerRuns(index) ==
    /\ \E replaced \in BOOLEAN :
          Leaves([State EXCEPT
                     !.history.op = [name |-> option_handlers[index + 1].kind,
                                     owner |-> option_handlers[index + 1].owner,
                                     index |-> option_handlers[index + 1].index],
                     !.option_handlers = IF replaced
                                         THEN << Handler("continue", None, 0, TRUE) >>
                                         ELSE @])
    /\ UNCHANGED defaults

\* the window after construction and the initial go_to, built with a transition
\* duration that gives it the fade animations, or one that does not
InitTransition ==
    \E d \in {TemplateDefaults, LabDefaults, VaultDefaults, ArenaDefaults}, fade \in BOOLEAN :
        /\ defaults = d
        /\ Holds(GoTo(Constructed(d), d.START_ROOM_ID, TRUE))
        /\ probe = [fn |-> "on_option", fade |-> fade, _transition_running |-> FALSE,
                    stage |-> "idle", handler |-> 0, accepted |-> 0, runs |-> 0,
                    last |-> Event("none", 0, FALSE, FALSE)]

\* an option button is clicked or one of the keys 1 to 4 is pressed: _on_option(index)
OnOption ==
    \E source \in {"button", "key"}, index \in 0..(OptionButtons - 1) :
        /\ probe.fn = "on_option"
        /\ IF ~Accepts(probe, index, option_handlers)
           THEN /\ probe' = [probe EXCEPT !.last = Event(source, index, FALSE, FALSE)]
                /\ UNCHANGED << defaults, game_vars >>
           ELSE /\ probe.accepted < MaxSelections
                /\ IF ~probe.fade
                   THEN \E raises \in BOOLEAN :
                           /\ HandlerRuns(index)
                           /\ probe' = [probe EXCEPT !.accepted = @ + 1, !.runs = @ + 1,
                                                     !.last = Event(source, index, TRUE, raises)]
                   ELSE /\ probe' = [probe EXCEPT !._transition_running = TRUE,
                                                  !.stage = "fading_out",
                                                  !.handler = index, !.accepted = @ + 1,
                                                  !.last = Event(source, index, TRUE, FALSE)]
                        /\ UNCHANGED << defaults, game_vars >>

\* fade_out finishes: on_fade_out_finished calls the handler, then starts fade_in, or
\* releases the guard when the handler raises
FadeOutFinished ==
    /\ probe.fn = "on_option" /\ probe.stage = "fading_out"
    /\ HandlerRuns(probe.handler)
    /\ \E raises \in BOOLEAN :
          probe' = [probe EXCEPT !.runs = @ + 1,
                                 !.stage = IF raises THEN "idle" ELSE "fading_in",
                                 !._transition_running = IF raises THEN FALSE ELSE @,
                                 !.last = Event("fade_out_finished", probe.handler, FALSE,
                                                raises)]

\* fade_in finishes: on_fade_in_finished releases the guard
FadeInFinished ==
    /\ probe.fn = "on_option" /\ probe.stage = "fading_in"
    /\ probe' = [probe EXCEPT !.stage = "idle", !._transition_running = FALSE,
                              !.last = Event("fade_in_finished", probe.handler, FALSE, FALSE)]
    /\ UNCHANGED << defaults, game_vars >>

NextTransition == OnOption \/ FadeOutFinished \/ FadeInFinished

\* an animation that was started finishes
SpecTransition ==
    /\ InitTransition
    /\ [][NextTransition]_vars
    /\ WF_vars(FadeOutFinished)
    /\ WF_vars(FadeInFinished)

----------------------------------------------------------------------------
(* Properties of the application *)

\* C1: for every flag F, in every state the option effects can reach, the requirement
\* {not_flag: F} evaluates to the negation of the requirement {flag: F}
C1_NotFlagNegatesFlag ==
    \A F \in (DOMAIN flags) \cup {"unset"} :
        EvaluateRequirement(State, [not_flag |-> F]) = ~EvaluateRequirement(State, [flag |-> F])

\* C2: after any sequence of handlers, hp lies in 0..max_hp and mana in 0..max_mana
C2_VitalsWithinCaps ==
    /\ 0 <= stats.hp /\ stats.hp <= stats.max_hp
    /\ 0 <= stats.mana /\ stats.mana <= stats.max_mana

\* C4: across the loot rolls of options and of victories, each unique key is awarded at
\* most once, and a key that was awarded is in the unique-awards set ever after; the
\* vault's gem and ruby share the key "gem" and no other entry awards them
C4_UniqueAwardedOnce ==
    /\ \A k \in DOMAIN history.unique_award_count :
          /\ history.unique_award_count[k] <= 1
          /\ k \in unique_loot_awards
    /\ Get(inventory, "gem", 0) + Get(inventory, "ruby", 0) <= 1

\* C4 witness: the key was awarded once, and both an option roll (the chest, which
\* always leaves a tonic or the gem) and a victory roll have been made
C4_Witness ==
    /\ Get(history.unique_award_count, "gem", 0) = 1
    /\ "gem" \in unique_loot_awards
    /\ Get(inventory, "tonic", 0) >= 1
    /\ stats.xp > 0

\* C9: in the template, with hp 10, attack 1 and no weapon, 'Hold your ground' in the
\* goblin trial fails, its fail_damage brings hp to 0, the defeat restores hp to 10,
\* clears the encounter and queues goblin_defeat, which Continue then enters
C9_GoblinTrialDefeat ==
    [][ /\ ( /\ defaults = TemplateDefaults
             /\ current_battle.spec = "goblin_trial"
             /\ stats.hp = 10 /\ stats.attack = 1
             /\ equipment = [melee |-> None, ranged |-> None]
             /\ SelectBattleAction )
           => /\ goblin_trial.actions[1].label = "Hold your ground"
              /\ ActionEffect(State, goblin_trial.actions[1],
                              [roll |-> 0, crit |-> 0]).state.stats.hp = 0
              /\ stats'.hp = 10 /\ stats'.max_hp = 10
              /\ current_battle' = NoBattle
              /\ pending_room_transition' = "goblin_defeat"
              /\ dialogue' = {Line("defeat", "goblin_trial")}
        /\ ( /\ defaults = TemplateDefaults
             /\ pending_room_transition = "goblin_defeat"
             /\ SelectContinue )
           => /\ current_room_id' = "goblin_defeat"
              /\ current_battle' = NoBattle
              /\ stats'.hp = 10 ]_vars

\* C9 witness: the template run has entered goblin_defeat through Continue
C9_Witness ==
    /\ defaults = TemplateDefaults
    /\ current_room_id = "goblin_defeat"
    /\ history.op.name = "execute_pending_transition"
    /\ stats.hp = 10

\* C10: a flag made timed with timer_rooms = N stays set, with no 'fades' message, through
\* the first N-1 non-initial go_to calls that follow (the arming option's own go_to is
\* the first of them), and the N-th removes the flag and its timer and writes the message
C10_TimedFlagFadesOnNthCall ==
    \A f \in DOMAIN history.timer :
        LET t == history.timer[f]
        IN  /\ t.state # "lost"
            /\ t.state = "armed" => /\ t.calls < t.n
                                    /\ f \in DOMAIN flags
                                    /\ f \in DOMAIN timed_flags
            /\ t.state = "faded" => t.calls = t.n

\* C10 witness: a flag armed with timer_rooms = 2 has faded on the second go_to, and one
\* armed with the largest timer has faded too
C10_Witness ==
    /\ "torch" \in DOMAIN history.timer
    /\ history.timer["torch"] = [n |-> 2, calls |-> 2, state |-> "faded"]
    /\ "ward" \in DOMAIN history.timer
    /\ history.timer["ward"] = [n |-> MaxTimer, calls |-> MaxTimer, state |-> "faded"]

\* C3 as stated: equipping a weapon and then immediately unequipping it restores every
\* field of Stats to its value before the equip, whatever the weapon and the Stats
C3_EquipUnequipRestores ==
    (probe.fn = "equip" /\ probe.pc = "unequipped") => stats = probe.before

\* C3 amended: equip then unequip leaves the weapon's slot empty and Stats at the value
\* before the equip less the effects of the weapon the slot held before (the same weapon
\* included, whose equip is refused); Stats are restored when the slot was empty
C3_EquipUnequipRestoresEmptySlot ==
    (probe.fn = "equip" /\ probe.pc = "unequipped") =>
        LET held == Get(ItemDefinition(probe.replaced), "effects", EmptyDict)
        IN  /\ equipment[WeaponSlot(ItemDefinition(probe.item_id))] = None
            /\ probe.returned = (probe.replaced # probe.item_id)
            /\ \A n \in StatNames : stats[n] = probe.before[n] - Get(held, n, 0)
            /\ probe.replaced = None => stats = probe.before

\* C3 witness: a weapon with two effects was equipped into an empty slot and unequipped
C3_Witness ==
    /\ probe.fn = "equip" /\ probe.pc = "unequipped"
    /\ probe.item_id = "ward_blade" /\ probe.replaced = None /\ probe.returned
    /\ probe.before.attack = -MaxStat
    /\ stats = probe.before

\* C5: the level is monotonic in the total xp: of two calls, the one on the total that
\* is no lower returns a level that is no lower
C5_LevelMonotonic ==
    ( /\ probe.fn = "xp_curve" /\ probe.pc \in {"returned", "shown"}
      /\ probe.first.level # 0
      /\ probe.first.total_xp <= probe.total_xp )
        => probe.first.level <= probe.result.level

\* C5 witness: the second call crossed into a level beyond the explicit requirements
C5_Witness ==
    /\ probe.fn = "xp_curve" /\ probe.pc = "returned"
    /\ probe.first.level = 6 /\ probe.result.level = 7
    /\ probe.total_xp = probe.first.total_xp + 1

\* C6: on every total xp, negative ones included, xp_curve returns, and what it returns
\* (and what _calculate_level_progress makes of it) has level >= 1, target >= 1 and
\* 0 <= progress < target
C6_CurveReturnsInRange ==
    /\ [](probe.fn = "xp_curve" /\ probe.pc \in {"returned", "shown"} =>
            /\ probe.result.level >= 1
            /\ probe.result.target >= 1
            /\ 0 <= probe.result.progress
            /\ probe.result.progress < probe.result.target)
    /\ [](probe.fn = "xp_curve" /\ probe.pc = "loop" => <>(probe.pc = "returned"))

\* C6 witness: a call on a negative total has returned level 1 with no progress
C6_Witness ==
    /\ probe.fn = "xp_curve" /\ probe.pc = "returned" /\ probe.caller = "xp_curve"
    /\ probe.total_xp < 0
    /\ probe.result = [level |-> 1, progress |-> 0, target |-> 50]

\* C7: in a battle, for all integer attack, bonus, roll and enemy defence, the damage is
\* max(0, attack + bonus + roll - defence) when the crit draw does not trigger, and that
\* value times CRIT_MULTIPLIER, truncated, when it does
C7_DamageFormula ==
    (probe.fn = "calculate_player_damage" /\ probe.pc = "returned" /\ probe.in_battle) =>
        LET plain == Max(0, probe.attack + probe.bonus + probe.roll - probe.defence)
        IN  probe.damage =
                IF defaults.CRIT_CHANCE > 0 /\ probe.crit_draw < defaults.CRIT_CHANCE
                THEN (plain * defaults.CRIT_MULTIPLIER) \div 100
                ELSE plain

\* C8 as stated: on content in which an option's `to` names a room that does not exist,
\* validate fails and its message is the 'missing room' message naming that id
C8_MissingRoomNamed ==
    (probe.fn = "validate" /\ probe.pc = "returned") =>
        \A id \in MissingTargets(probe.content) :
            /\ ~probe.result.ok
            /\ probe.result.message.kind = "missing_room"
            /\ probe.result.message.id = id

\* C8 amended: on such content validate fails; its message is the 'missing room' message
\* exactly when no asset is missing, the start room exists and no option before the
\* first one with a missing target has a broken battle reference, and it then names the
\* target of that first option
C8_MissingRoomFailsFirstNamed ==
    (probe.fn = "validate" /\ probe.pc = "returned"
        /\ MissingTargets(probe.content) # {}) =>
        LET content == probe.content
            rooms_ok == ValidateAssets(content).kind = "ok"
                           /\ content.START_ROOM_ID \in RoomIds(content.rooms)
            \* the options in the order the validator walks them
            walk == << << 1, 1 >>, << 1, 2 >>, << 2, 1 >> >>
            option(k) == content.rooms[walk[k][1]].options[walk[k][2]]
            broken(k) == option(k).to \in MissingTargets(content)
            first == CHOOSE k \in DOMAIN walk : broken(k) /\ \A h \in 1..(k - 1) : ~broken(h)
            earlier_ok == \A h \in 1..(first - 1) :
                              OptionCheck(content.rooms[walk[h][1]], option(h), content).kind = "ok"
        IN  /\ ~probe.result.ok
            /\ probe.result.message.kind = "missing_room" <=> (rooms_ok /\ earlier_ok)
            /\ probe.result.message.kind = "missing_room" =>
                   probe.result.message.id = option(first).to

\* C8 witness: the one missing target is named, after an earlier option with a sound
\* battle reference
C8_Witness ==
    /\ probe.fn = "validate" /\ probe.pc = "returned"
    /\ MissingTargets(probe.content) = {"abyss"}
    /\ probe.content.rooms[1].options[1].battle_id = "goblin"
    /\ probe.result = [ok |-> FALSE,
                       message |-> Message("missing_room", "hall", "Search", "abyss")]

\* C11 as stated: with MANA_PER_ROOM 0.25 and the configured starting stats, after four
\* non-initial room transitions with no change of mana in between, mana is exactly one
\* greater than before the first of them
C11_FourRoomsOneMana ==
    (defaults.MANA_PER_ROOM = 25 /\ Len(history.regen) = 4) =>
        stats.mana = history.regen[1] + 1

\* C11 amended: after those four transitions mana is one greater than before the first
\* of them unless that exceeds max_mana, and then it is max_mana; the reserve is back
\* where it was
C11_FourRoomsOneManaCapped ==
    (defaults.MANA_PER_ROOM = 25 /\ Len(history.regen) = 4) =>
        /\ stats.mana = Min(stats.max_mana, history.regen[1] + 1)
        /\ mana_regen_reserve \in {0, 25, 50, 75}

\* C11 witness: mana spent by a cast was 2 before the first of four transitions and is 3
\* after the fourth
C11_Witness ==
    /\ defaults.MANA_PER_ROOM = 25 /\ Len(history.regen) = 4
    /\ history.regen[1] = 2 /\ stats.mana = 3 /\ stats.max_mana = 5
    /\ history.op.name \in {"handle_room_option", "execute_pending_transition"}

\* C12: when a cast action is selected while mana < mana_cost, whatever its hit_chance
\* and ammo settings, the turn is aborted: mana, the player's hp and enemy_hp are
\* unchanged and the battle stays active
C12_CastWithoutManaAborts ==
    [][ ( /\ InBattle(State)
          /\ history'.op.name = "resolve_battle_action"
          /\ battles[history'.op.owner].actions[history'.op.index].kind = "cast"
          /\ stats.mana < battles[history'.op.owner].actions[history'.op.index].mana_cost )
        => /\ stats'.mana = stats.mana
           /\ stats'.hp = stats.hp
           /\ current_battle' = current_battle ]_vars

\* C13: a battle turn (an action or Endure) never ends in Victory while the player's hp
\* is 0; when hp is 0 after a resolved skill check's own effect the turn ends in Defeat;
\* and a turn the enemy's counter-attack ends at 0 hp ends in Defeat, so the battle is
\* never left active at 0 hp
C13_NoVictoryAtZeroHp ==
    [][ ( InBattle(State) /\ history'.op.name \in {"resolve_battle_action", "pass_turn"} )
        => /\ Line("victory", current_battle.spec) \in dialogue' => stats'.hp > 0
           /\ ( /\ history'.op.name = "resolve_battle_action"
                /\ battles[history'.op.owner].actions[history'.op.index].kind = "skill_check"
                /\ BattleActionAvailable(State,
                       battles[history'.op.owner].actions[history'.op.index])
                /\ ActionEffect(State, battles[history'.op.owner].actions[history'.op.index],
                                [roll |-> 0, crit |-> 0]).state.stats.hp = 0 )
                => dialogue' = {Line("defeat", current_battle.spec)}
           /\ current_battle'.spec # None => stats'.hp > 0 ]_vars

\* C14: a turn that ends in Defeat sets hp to max_hp, clears the encounter, grants no xp
\* and no item, leaves the repeat tracker alone and queues the battle's defeat_to if
\* set, else DEFEAT_ROOM_ID if the defaults define it, else START_ROOM_ID; Continue is
\* then the only option, and selecting it enters the queued room
C14_DefeatRestoresAndRoutes ==
    [][ /\ ( InBattle(State) /\ dialogue' = {Line("defeat", current_battle.spec)} )
           => /\ stats'.hp = stats'.max_hp /\ stats'.max_hp = stats.max_hp
              /\ current_battle' = NoBattle
              /\ stats'.xp = stats.xp
              /\ \A x \in DOMAIN inventory' : inventory'[x] <= Get(inventory, x, 0)
              /\ battle_repeat_tracker' = battle_repeat_tracker
              /\ pending_room_transition' =
                    IF battles[current_battle.spec].defeat_to # None
                    THEN battles[current_battle.spec].defeat_to
                    ELSE IF "DEFEAT_ROOM_ID" \in DOMAIN defaults THEN defaults.DEFEAT_ROOM_ID
                    ELSE defaults.START_ROOM_ID
              /\ option_handlers' = << Handler("continue", None, 0, TRUE) >>
        /\ pending_room_transition # None
           => /\ option_handlers = << Handler("continue", None, 0, TRUE) >>
              /\ SelectContinue => ( /\ current_room_id' = pending_room_transition
                                     /\ pending_room_transition' = None ) ]_vars

\* C14 witness: in the arena, whose battle names no defeat_to, a defeat was followed by
\* Continue into the room DEFEAT_ROOM_ID names, with hp restored and nothing gained
C14_Witness ==
    /\ defaults = ArenaDefaults
    /\ current_room_id = "infirmary"
    /\ history.op.name = "execute_pending_transition"
    /\ stats.hp = stats.max_hp /\ stats.xp = 0

\* C15: a turn that ends in Victory adds exactly XP_PER_VICTORY to xp, adds every item of
\* the enemy's loot list to the inventory (on top of what the turn's action left of its
\* ammo), clears the encounter and queues the battle's victory_to if set, else the `to`
\* of the option that started the battle if set, else the room the battle was started
\* in, which no battle step leaves; Continue then enters the queued room
C15_VictoryGrantsAndRoutes ==
    [][ /\ ( InBattle(State) /\ Line("victory", current_battle.spec) \in dialogue' )
           => LET battle == battles[current_battle.spec]
                  action == battle.actions[history'.op.index]
                  spent(x) == IF action.ammo_item = x THEN Max(0, action.ammo_cost) ELSE 0
                  tabled == { battle.loot_table[j].item : j \in DOMAIN battle.loot_table }
              IN  /\ stats'.xp = stats.xp + defaults.XP_PER_VICTORY
                  /\ \A x \in Range(battle.enemy.loot) :
                        /\ x \in DOMAIN inventory'
                        /\ inventory'[x] >= Get(inventory, x, 0) - spent(x)
                                               + CountOf(battle.enemy.loot, x)
                        /\ x \notin tabled =>
                              inventory'[x] = Get(inventory, x, 0) - spent(x)
                                                 + CountOf(battle.enemy.loot, x)
                  /\ current_battle' = NoBattle
                  /\ pending_room_transition' =
                        IF battle.victory_to # None THEN battle.victory_to
                        ELSE IF current_battle.option_to # None THEN current_battle.option_to
                        ELSE current_room_id
                  /\ option_handlers' = << Handler("continue", None, 0, TRUE) >>
        /\ InBattle(State) => current_room_id' = current_room_id
        /\ ( SelectContinue /\ pending_room_transition # None )
           => current_room_id' = pending_room_transition ]_vars

\* C15 witness: in the camp the ogre, whose battle names no victory_to, fell to an arrow:
\* xp is 5, the arrow looted replaced the arrow shot, and the option's `to` is queued
C15_Witness ==
    /\ defaults = ArenaDefaults
    /\ dialogue = {Line("victory", "ogre_bout")}
    /\ history.op = [name |-> "resolve_battle_action", owner |-> "ogre_bout", index |-> 2]
    /\ current_room_id = "camp" /\ pending_room_transition = "gallery"
    /\ stats.xp = 5 /\ Get(inventory, "arrow", 0) = 1

\* C16: for every battle option with a repeat limit L > 0 and its repeat key k: a battle
\* started through the option carries k; the tracker changes only when a battle that
\* carries a key ends in Victory, and then that key's count rises by exactly 1; the
\* count of k never exceeds L; and when it has reached L, selecting the option starts no
\* battle and shows the exhausted message
C16_RepeatTrackerCountsVictories ==
    [][ /\ battle_repeat_tracker' # battle_repeat_tracker
           => /\ InBattle(State) /\ current_battle.repeat_key # None
              /\ Line("victory", current_battle.spec) \in dialogue'
        /\ ( InBattle(State) /\ Line("victory", current_battle.spec) \in dialogue'
             /\ current_battle.repeat_key # None )
           => battle_repeat_tracker' =
                 Put(battle_repeat_tracker, current_battle.repeat_key,
                     Get(battle_repeat_tracker, current_battle.repeat_key, 0) + 1)
        /\ \A id \in DOMAIN rooms : \A i \in DOMAIN rooms[id].options :
              LET option == rooms[id].options[i]
                  L == option.battle_repeat_limit
                  k == BattleRepeatKey([current_room_id |-> id], option)
                  selected == history'.op = [name |-> "handle_room_option",
                                             owner |-> id, index |-> i]
              IN  L > 0 =>
                    /\ Get(battle_repeat_tracker', k, 0) <= L
                    /\ (selected /\ Get(battle_repeat_tracker, k, 0) < L)
                          => current_battle'.repeat_key = k
                    /\ (selected /\ Get(battle_repeat_tracker, k, 0) >= L)
                          => /\ current_battle' = NoBattle
                             /\ Line("repeat_exhausted", option.label) \in dialogue' ]_vars

\* C16 witness: the rat was beaten as often as the option's limit of 2 allows, and the
\* option, selected again, showed the exhausted message
C16_Witness ==
    /\ defaults = VaultDefaults
    /\ Get(battle_repeat_tracker, "vault:fight_the_rat", 0) = 2
    /\ history.op = [name |-> "handle_room_option", owner |-> "vault", index |-> 3]
    /\ Line("repeat_exhausted", "Fight the rat") \in dialogue
    /\ current_battle = NoBattle

C18_UnavailableActionForfeitsTurn ==
    [][ LET op == history'.op
            battle == battles[op.owner]
            action == battle.actions[op.index]
        IN  (/\ InBattle(State)
             /\ op.name = "resolve_battle_action"
             /\ ~BattleActionAvailable(State, action))
            => /\ inventory' = inventory
               /\ stats'.mana = stats.mana
               /\ \E roll \in EnemyRolls :
                     LET damage == Max(0, battle.enemy.attack + roll - stats.defence)
                         hp == Max(0, stats.hp - damage)
                     IN  IF hp <= 0
                         THEN /\ dialogue' = {Line("defeat", battle.id)}
                              /\ current_battle' = NoBattle
                              /\ stats'.hp = stats.max_hp
                         ELSE /\ stats'.hp = hp
                              /\ current_battle' = current_battle
                              /\ dialogue' = {Line("unavailable", action.label)}
      ]_vars

\* C18 witness: without a bow the arrow shot was selected in the ring; the turn was
\* forfeited, the ogre struck once for 5 and the battle goes on
C18_Witness ==
    /\ defaults = ArenaDefaults
    /\ history.op = [name |-> "resolve_battle_action", owner |-> "ogre_bout", index |-> 2]
    /\ dialogue = {Line("unavailable", "Loose an arrow")}
    /\ equipment.ranged = None
    /\ current_battle.spec = "ogre_bout" /\ current_battle.enemy_hp = 8
    /\ stats.hp = 5 /\ stats.mana = 5

\* C19: when no action of the battle is left after filtering (none is available and none
\* is shown when unavailable) the options are the single Endure option; selecting it
\* leaves the enemy's hp, the mana and the inventory unchanged, and the enemy attacks
\* exactly once: Defeat if the player's hp reaches 0, otherwise the battle stays active
C19_EndureWhenNoActions ==
    [][ LET op == history'.op
            Endure == << Handler("pass_turn", None, 0, TRUE) >>
        IN  /\ (/\ current_battle'.spec # None
                /\ op.name \in {"handle_room_option", "resolve_battle_action", "pass_turn"}
                /\ \A i \in DOMAIN battles[current_battle'.spec].actions :
                      LET action == battles[current_battle'.spec].actions[i]
                      IN  ~BattleActionAvailable(State', action)
                          /\ ~action.show_if_unavailable)
               => option_handlers' = Endure
            /\ (InBattle(State) /\ op.name = "pass_turn")
               => LET battle == battles[current_battle.spec]
                  IN  /\ option_handlers = Endure
                      /\ inventory' = inventory
                      /\ stats'.mana = stats.mana
                      /\ \E roll \in EnemyRolls :
                            LET damage == Max(0, battle.enemy.attack + roll - stats.defence)
                                hp == Max(0, stats.hp - damage)
                            IN  IF hp <= 0
                                THEN /\ dialogue' = {Line("defeat", battle.id)}
                                     /\ current_battle' = NoBattle
                                     /\ stats'.hp = stats.max_hp
                                ELSE /\ stats'.hp = hp
                                     /\ current_battle' = current_battle
                                     /\ option_handlers' = Endure
      ]_vars

\* C19 witness: without a melee weapon the rat's only action is filtered out; Endure was
\* selected, the rat bit once for 3 and the battle goes on with Endure offered again
C19_Witness ==
    /\ defaults = VaultDefaults
    /\ history.op = [name |-> "pass_turn", owner |-> None, index |-> 0]
    /\ equipment.melee = None
    /\ current_battle.spec = "rat_fight" /\ current_battle.enemy_hp = 6
    /\ stats.hp = 7
    /\ option_handlers = << Handler("pass_turn", None, 0, TRUE) >>

\* C20: start_battle creates the encounter with enemy_hp = enemy.hp; if the flag
\* enemy_stunned holds a positive s when the battle starts, enemy_hp is reduced by
\* min(enemy.hp, 4 * s); the flag is absent after start_battle, whatever it held
C20_StartBattleAppliesStun ==
    [][ LET op == history'.op
            option == rooms[op.owner].options[op.index]
            enemy == battles[current_battle'.spec].enemy
            s == IF "enemy_stunned" \in DOMAIN option.effects
                 THEN option.effects.enemy_stunned
                 ELSE Get(flags, "enemy_stunned", 0)
        IN  (~InBattle(State) /\ current_battle'.spec # None)
            => /\ op.name = "handle_room_option"
               /\ current_battle'.spec = option.battle_id
               /\ current_battle'.enemy_hp =
                     IF s > 0 THEN enemy.hp - Min(enemy.hp, 4 * s) ELSE enemy.hp
               /\ "enemy_stunned" \notin DOMAIN flags'
      ]_vars

\* C20 witness: a pit trap (two turns of stun) was dug before the spar with the ogre of
\* 6 hp: the battle started with the ogre at 0 hp, not below, and the flag is gone
C20_Witness ==
    /\ defaults = ArenaDefaults
    /\ history.op = [name |-> "handle_room_option", owner |-> "gallery", index |-> 3]
    /\ current_battle.spec = "ogre_duel" /\ current_battle.enemy_hp = 0
    /\ dialogue = {Line("battle_reels", "ogre_duel")}
    /\ "enemy_stunned" \notin DOMAIN flags

\* C21: go_to with a room id that is not in rooms leaves the game state as it got it
\* (after the selected option's own effects): current_room_id, the timed flags, the
\* flags, mana and the mana-regen reserve keep their values (no timer tick and no
\* regeneration), the battle and the buttons stay, and only the message is shown
C21_MissingRoomChangesNothing ==
    [][ LET op == history'.op
            option == rooms[op.owner].options[op.index]
        IN  (/\ op.name = "handle_room_option"
             /\ option.battle_id = None
             /\ option.to # None /\ option.to \notin DOMAIN rooms)
            => \E rnd \in EffectDraws(option) :
                  LET given == ApplyOptionEffects(State, option, rnd)
                  IN  /\ current_room_id' = current_room_id
                      /\ timed_flags' = given.timed_flags
                      /\ flags' = given.flags
                      /\ stats' = given.stats
                      /\ mana_regen_reserve' = given.mana_regen_reserve
                      /\ current_battle' = current_battle
                      /\ option_handlers' = option_handlers
                      /\ dialogue' = {Line("room_missing", option.to)}
      ]_vars

\* C21 witness: with the torch lit for two rooms and a quarter of a mana point in the
\* reserve, the grate that leads to the undefined room was tried: the player is still
\* in the cell and timer, flag and reserve are what they were
C21_Witness ==
    /\ defaults = LabDefaults
    /\ history.op = [name |-> "handle_room_option", owner |-> "cell", index |-> 5]
    /\ dialogue = {Line("room_missing", "sewer")}
    /\ current_room_id = "cell"
    /\ "torch" \in DOMAIN flags /\ "torch" \in DOMAIN timed_flags /\ timed_flags.torch = 2
    /\ mana_regen_reserve > 0

\* the options of `room`, in declared order, whose requires_flag (flag value > 0),
\* requires_not_flag (flag not > 0) and require_expr all pass in state s, or the one
\* filler option when none passes
PassingOptions(s, room) ==
    LET Passes(i) ==
            LET option == room.options[i]
            IN  /\ (option.requires_flag # None) => (Get(s.flags, option.requires_flag, 0) > 0)
                /\ (option.requires_not_flag # None)
                      => ~(Get(s.flags, option.requires_not_flag, 0) > 0)
                /\ IsDict(option.require_expr) => EvaluateRequirement(s, option.require_expr)
        passing == SelectSeq([i \in DOMAIN room.options |-> i], Passes)
    IN  IF Len(passing) = 0 THEN << Handler("filler", None, 0, TRUE) >>
        ELSE [k \in DOMAIN passing |-> Handler("room_option", room.id, passing[k], TRUE)]

\* the room a step enters through a successful go_to, or None: the pending room of a
\* Continue, or the `to` of a selected option that starts no battle
EnteredRoom ==
    LET op == history'.op
    IN  IF op.name = "execute_pending_transition"
        THEN IF pending_room_transition \in DOMAIN rooms THEN pending_room_transition ELSE None
        ELSE IF op.name = "handle_room_option"
        THEN LET option == rooms[op.owner].options[op.index]
             IN  IF option.battle_id = None /\ option.to \in DOMAIN rooms THEN option.to
                 ELSE None
        ELSE None

\* C22 as stated: after every successful go_to (the initial one included) there is no
\* active battle and the offered options are exactly the room's passing options in
\* declared order, or the one filler option
C22_OfferedAreThePassing ==
    /\ (history.op.name = "init")
          => /\ current_battle = NoBattle
             /\ option_handlers = PassingOptions(State, rooms[current_room_id])
    /\ [][ (EnteredRoom # None)
            => /\ current_room_id' = EnteredRoom
               /\ current_battle' = NoBattle
               /\ option_handlers' = PassingOptions(State', rooms[EnteredRoom])
         ]_vars

\* C22 amended: after every successful go_to (the initial one included) there is no
\* active battle and the offered options are the first OptionButtons of the room's
\* passing options in declared order, or the one filler option when none passes
C22_OfferedAreTheFirstPassing ==
    /\ (history.op.name = "init")
          => /\ current_battle = NoBattle
             /\ option_handlers =
                   SubSeq(PassingOptions(State, rooms[current_room_id]), 1,
                          Min(OptionButtons, Len(PassingOptions(State, rooms[current_room_id]))))
    /\ [][ (EnteredRoom # None)
            => /\ current_room_id' = EnteredRoom
               /\ current_battle' = NoBattle
               /\ \E n \in 0..OptionButtons :
                     /\ n = Min(OptionButtons, Len(PassingOptions(State', rooms[EnteredRoom])))
                     /\ option_handlers' =
                           SubSeq(PassingOptions(State', rooms[EnteredRoom]), 1, n)
         ]_vars

\* C22 witness: the cell was entered with the ward lit and the torch not: all five of
\* its options pass, and the first four of them are offered
C22_Witness ==
    /\ defaults = LabDefaults
    /\ history.op = [name |-> "handle_room_option", owner |-> "annex", index |-> 4]
    /\ current_room_id = "cell"
    /\ "torch" \notin DOMAIN flags /\ "ward" \in DOMAIN flags
    /\ Len(PassingOptions(State, cell_room)) = 5
    /\ option_handlers = [k \in 1..4 |-> Handler("room_option", "cell", k, TRUE)]

\* the reference semantics of a well-formed requirement tree: the first recognized key
\* in the order flag, not_flag, min, alert_below, all, any decides
RECURSIVE Reference(_, _, _)
Reference(fl, level, expr) ==
    LET Value(f) == IF f \in DOMAIN fl THEN fl[f] ELSE 0
        order == << "flag", "not_flag", "min", "alert_below", "all", "any" >>
        first == order[CHOOSE k \in 1..Len(order) :
                          /\ order[k] \in DOMAIN expr
                          /\ \A earlier \in 1..(k - 1) : order[earlier] \notin DOMAIN expr]
    IN  CASE first = "flag" -> Value(expr.flag) > 0
          [] first = "not_flag" -> Value(expr.not_flag) = 0
          [] first = "min" -> \A f \in DOMAIN expr.min : Value(f) >= expr.min[f]
          [] first = "alert_below" -> level < expr.alert_below
          [] first = "all" -> \A n \in 1..Len(expr.all) : Reference(fl, level, expr.all[n])
          [] first = "any" -> \E n \in 1..Len(expr.any) : Reference(fl, level, expr.any[n])

\* C23: for well-formed requirement trees the evaluator returns what the reference
\* semantics give: {flag: F} iff flags[F] > 0, {min: m} iff every listed flag (absent =
\* 0) is >= its threshold, {alert_below: n} iff alert_level < n, {all: xs} the AND
\* (empty = true), {any: xs} the OR (empty = false), the first recognized key deciding
C23_EvaluatorMatchesReference ==
    (probe.fn = "evaluate_requirement" /\ probe.pc = "returned" /\ probe.well_formed)
        => /\ probe.result = Reference(flags, alert_level, probe.expr)
           /\ probe.offered = probe.result

\* C23 witness: {any: [{min: {ward: MaxFlag, heat: 1}}, {alert_below: 0}]} was evaluated
\* with the ward at the threshold and heat 1: the first sub-expression holds, the second
\* does not, and the result is true
C23_Witness ==
    /\ probe.fn = "evaluate_requirement" /\ probe.pc = "returned"
    /\ probe.expr = [any |-> << [min |-> [ward |-> MaxFlag, heat |-> 1]],
                                 [alert_below |-> 0] >>]
    /\ Get(flags, "ward", 0) = MaxFlag /\ Get(flags, "heat", 0) = 1
    /\ probe.result

\* C24: every requirement expression that is absent, has no recognized key, or has a
\* recognized key with a malformed payload (a `min` that is not a map, a non-map node
\* inside an `all` or `any` list) evaluates to true, and the option it guards is offered
C24_MalformedIsPermitted ==
    (probe.fn = "evaluate_requirement" /\ probe.pc = "returned" /\ ~probe.well_formed)
        => /\ probe.offered
           /\ IsDict(probe.expr) => probe.result

\* the awards of the attempts a..attempts as the claim describes them: each attempt
\* awards the first entry in declared order whose draw is <= its chance (an absent
\* chance always awards, a chance of 0 never) and that is not a unique entry awarded
\* before
RECURSIVE ClaimedAwards(_, _, _, _, _)
ClaimedAwards(unique, table, attempts, a, draws) ==
    LET Key(entry) == IF "unique_key" \in DOMAIN entry THEN entry.unique_key ELSE entry.item
        IsUnique(entry) == "unique" \in DOMAIN entry /\ entry.unique
        Awardable(j) ==
            /\ \/ "chance" \notin DOMAIN table[j]
               \/ /\ draws[a][j] <= table[j].chance
                  /\ table[j].chance > 0
            /\ ~(IsUnique(table[j]) /\ Key(table[j]) \in unique)
        hits == { j \in DOMAIN table : Awardable(j) }
        first == CHOOSE j \in hits : \A k \in hits : j <= k
    IN  IF a > attempts THEN << >>
        ELSE IF hits = {} THEN ClaimedAwards(unique, table, attempts, a + 1, draws)
        ELSE << table[first].item >>
             \o ClaimedAwards(IF IsUnique(table[first]) THEN unique \cup {Key(table[first])}
                              ELSE unique,
                              table, attempts, a + 1, draws)

\* C25: a loot roll makes max(1, rolls) attempts; each awards at most one item, the first
\* entry in declared order whose draw is <= its chance (absent chance always awards, an
\* entry with chance 0 is never awarded) and that is not an already awarded unique
\* entry; the result is the awards in attempt order, of length <= max(1, rolls), and an
\* empty table yields an empty result
C25_LootRollAwards ==
    (probe.fn = "roll_loot_table" /\ probe.pc = "returned")
        => /\ Len(probe.table) = 0 => probe.awards = << >>
           /\ Len(probe.awards) <= Max(1, probe.rolls)
           /\ Len(probe.table) > 0 =>
                 probe.awards = ClaimedAwards(probe.unique, probe.table, Max(1, probe.rolls),
                                              1, probe.draws)

\* C26: after the Effects Applier has applied an option that has clear_flag = F, F is
\* absent from flags and from timed_flags, whatever other keys (set_flag, effects.set,
\* effects.timer_rooms) the option carries
C26_ClearedFlagIsGone ==
    (/\ probe.fn = "apply_option_effects" /\ probe.pc = "returned"
     /\ probe.option.clear_flag # None)
        => /\ probe.option.clear_flag \notin DOMAIN flags
           /\ probe.option.clear_flag \notin DOMAIN timed_flags

\* every asset key and every reference of the content exists
AllReferencesValid(content) ==
    LET ids == RoomIds(content.rooms)
    IN  /\ \A i \in DOMAIN content.rooms :
              /\ content.rooms[i].background_key \in content.images \cup {None}
              /\ content.rooms[i].music_key \in content.sounds \cup {None}
              /\ \A j \in DOMAIN content.rooms[i].options :
                    /\ content.rooms[i].options[j].to \in ids \cup {None}
                    /\ content.rooms[i].options[j].battle_id
                          \in (DOMAIN content.battles) \cup {None}
        /\ content.START_ROOM_ID \in ids
        /\ content.DEFEAT_ROOM_ID \in ids \cup {None}
        /\ \A b \in DOMAIN content.battles :
              /\ content.battles[b].victory_to \in ids \cup {None}
              /\ content.battles[b].defeat_to \in ids \cup {None}

\* the rooms one step from the rooms in `from`: along an option's `to`, a battle's
\* victory_to (else the option's `to`) and a battle's defeat_to (else the defeat fallback)
OneStepFrom(from, content) ==
    from \cup
    UNION { UNION { LET option == content.rooms[i].options[j]
                        battle == content.battles[option.battle_id]
                    IN  ({option.to} \ {None})
                        \cup (IF option.battle_id = None THEN {}
                              ELSE ({IF battle.victory_to # None THEN battle.victory_to
                                     ELSE option.to} \ {None})
                                   \cup ({IF battle.defeat_to # None THEN battle.defeat_to
                                          ELSE content.DEFEAT_ROOM_ID} \ {None}))
                    : j \in DOMAIN content.rooms[i].options }
            : i \in { k \in DOMAIN content.rooms : content.rooms[k].id \in from } }

\* the rooms reachable from the start room: with three rooms, two steps reach them all
Reachable(content) ==
    OneStepFrom(OneStepFrom(OneStepFrom({content.START_ROOM_ID}, content), content), content)

\* C27: when all asset keys and all references are valid, validate passes if and only if
\* every room is reachable from START_ROOM_ID along option.to, battle victory_to (else
\* the option's to) and battle defeat_to (else the defeat fallback); when it fails, the
\* message is the reachability message and lists exactly the unreachable room ids
C27_PassesIffAllReachable ==
    (/\ probe.fn = "validate" /\ probe.pc = "returned"
     /\ AllReferencesValid(probe.content))
        => LET unreachable == RoomIds(probe.content.rooms) \ Reachable(probe.content)
           IN  /\ probe.result.ok <=> (unreachable = {})
               /\ probe.result.ok => probe.result.message.kind = "passed"
               /\ ~probe.result.ok => /\ probe.result.message.kind = "unreachable"
                                      /\ probe.result.message.id = unreachable

\* C27 witness: the crypt is reached only through the battle's victory_to and the tomb
\* only through the defeat fallback, and validation passed
C27_Witness ==
    /\ probe.fn = "validate" /\ probe.pc = "returned"
    /\ AllReferencesValid(probe.content)
    /\ probe.content.START_ROOM_ID = "hall"
    /\ \A j \in 1..2 : probe.content.rooms[1].options[j].to = None
    /\ probe.content.rooms[1].options[1].battle_id = "goblin"
    /\ probe.content.battles.goblin.victory_to = "crypt"
    /\ probe.content.battles.goblin.defeat_to = None
    /\ probe.content.DEFEAT_ROOM_ID = "tomb"
    /\ probe.result.ok

\* the ids the content refers to: the start room, every option's `to` and battle_id, and
\* the victory_to and defeat_to of every battle of the content
ReferencedIds(content) ==
    LET options == UNION { { content.rooms[i].options[j] :
                                j \in DOMAIN content.rooms[i].options } :
                              i \in DOMAIN content.rooms }
    IN  [rooms |-> ({content.START_ROOM_ID}
                      \cup { o.to : o \in options }
                      \cup { content.battles[b].victory_to : b \in DOMAIN content.battles }
                      \cup { content.battles[b].defeat_to : b \in DOMAIN content.battles })
                   \ {None},
         battles |-> { o.battle_id : o \in options } \ {None}]

\* C28: validate returns failure whenever the content refers to a room or battle id that
\* does not exist: the start room id, an option's `to`, an option's battle_id, or the
\* victory_to or defeat_to of any battle in the content model
C28_DanglingReferenceFails ==
    (/\ probe.fn = "validate" /\ probe.pc = "returned"
     /\ \/ ~(ReferencedIds(probe.content).rooms \subseteq RoomIds(probe.content.rooms))
        \/ ~(ReferencedIds(probe.content).battles \subseteq DOMAIN probe.content.battles))
        => ~probe.result.ok

\* C29: assembling the item registry is a load-time error whenever the same item id is
\* defined by the base items and by the weapons; and two room files, or two battle
\* files, that define the same id make loading fail with an error
C29_DuplicateIdsAreErrors ==
    (probe.fn = "main") =>
        /\ (/\ probe.pc # "import_defaults"
            /\ (DOMAIN probe.BASE_ITEM_DEFINITIONS) \cap (DOMAIN WEAPON_DEFINITIONS) # {})
           => probe.error.kind # "ok"
        /\ (/\ probe.pc \in {"load_battles", "loaded"}
            /\ \E i, j \in DOMAIN probe.room_files :
                  i # j /\ probe.room_files[i] = probe.room_files[j])
           => probe.error.kind # "ok"
        /\ (/\ probe.pc = "loaded"
            /\ \E i, j \in DOMAIN probe.battle_files :
                  i # j /\ probe.battle_files[i] = probe.battle_files[j])
           => probe.error.kind # "ok"

\* C30: while a transition is in progress (from an accepted selection until its fade-in
\* finishes) every further selection, by button or by key, is rejected: no handler runs
\* and the game state is unchanged; exactly one handler runs per accepted selection (it
\* has run, or the fade-out of the one selection in progress has not finished); and the
\* guard is always released afterwards, also when the handler raises
C30_TransitionGuard ==
    /\ [](probe.fn = "on_option"
            => /\ probe._transition_running <=> (probe.stage # "idle")
               /\ probe.accepted = probe.runs + (IF probe.stage = "fading_out" THEN 1 ELSE 0))
    /\ [][ probe.fn = "on_option"
            => /\ (probe._transition_running /\ probe'.last.event \in {"button", "key"})
                  => /\ ~probe'.last.accepted
                     /\ probe' = [probe EXCEPT !.last = probe'.last]
                     /\ UNCHANGED game_vars
               /\ probe'.runs \in {probe.runs, probe.runs + 1}
               /\ (probe'.runs = probe.runs) => UNCHANGED game_vars
               /\ (probe'.last.raised /\ probe'.last # probe.last)
                  => ~probe'._transition_running
         ]_vars
    /\ (probe.fn = "on_option" /\ probe._transition_running)
          ~> (probe.fn = "on_option" /\ ~probe._transition_running)

\* C30 witness: the second option was selected by key while the transition of the first,
\* whose handler has run, was fading in: it was rejected and no second handler ran
C30_Witness ==
    /\ probe.fn = "on_option"
    /\ probe._transition_running /\ probe.stage = "fading_in"
    /\ probe.handler = 0
    /\ probe.last = Event("key", 1, FALSE, FALSE)
    /\ probe.accepted = 1 /\ probe.runs = 1

\* C31: in every reachable state every entry of the inventory has a count of at least 1:
\* gaining items, loot, consuming a consumable and consuming ammo never leave an item id
\* mapped to 0 or to a negative count
C31_InventoryCountsPositive ==
    \A item_id \in DOMAIN inventory : inventory[item_id] >= 1

\* C31 witness: the last arrow was loosed in the ring (the bow is still held) and its
\* entry is gone from the inventory
C31_Witness ==
    /\ history.op.name = "resolve_battle_action"
    /\ battles[history.op.owner].actions[history.op.index].ammo_item = "arrow"
    /\ "wooden_bow" \in DOMAIN inventory
    /\ equipment.ranged = "wooden_bow"
    /\ "arrow" \notin DOMAIN inventory
    /\ \A item_id \in DOMAIN inventory : inventory[item_id] >= 1

\* C32: for an available attack or cast action with an ammo requirement the ammo is
\* consumed before the hit test (it is gone whenever the battle goes on or is lost); when
\* the hit_chance draw misses, enemy_hp and mana are unchanged, the ammo stays consumed,
\* the enemy counter-attacks once, and Defeat follows if the player's hp reaches 0
C32_AmmoSpentBeforeHitTest ==
    [][ (history'.op.name = "resolve_battle_action" /\ InBattle(State))
        => LET battle == battles[current_battle.spec]
               action == battle.actions[history'.op.index]
               ammo_left == Get(inventory, action.ammo_item, 0) - action.ammo_cost
               missed == history'.hit > Max(0, Min(100, action.hit_chance))
           IN  (/\ action.kind \in {"attack", "cast"}
                /\ action.ammo_item # None /\ action.ammo_cost > 0
                /\ BattleActionAvailable(State, action))
               => /\ (stats'.xp = stats.xp) => (Get(inventory', action.ammo_item, 0) = ammo_left)
                  /\ missed
                     => \E roll \in EnemyRolls :
                           LET damage == Max(0, battle.enemy.attack + roll - stats.defence)
                               hp == Max(0, stats.hp - damage)
                           IN  /\ stats'.mana = stats.mana
                               /\ stats'.xp = stats.xp
                               /\ Get(inventory', action.ammo_item, 0) = ammo_left
                               /\ IF hp = 0
                                  THEN /\ current_battle' = NoBattle
                                       /\ Line("defeat", battle.id) \in dialogue'
                                  ELSE /\ current_battle' = current_battle
                                       /\ stats'.hp = hp
                                       /\ Line("misses", action.label) \in dialogue'
      ]_vars

\* C32 witness: in the duel the arrow was loosed and missed after an earlier miss: the
\* arrow is gone and the ogre's counter-attack brought the defeat
C32_Witness ==
    /\ history.op = [name |-> "resolve_battle_action", owner |-> "ogre_duel", index |-> 2]
    /\ history.hit = 99
    /\ "arrow" \notin DOMAIN inventory
    /\ equipment.ranged = "wooden_bow"
    /\ current_battle = NoBattle
    /\ Line("defeat", "ogre_duel") \in dialogue

\* C33: in the template content, selecting the armory option 'Take the training blade'
\* (hint 'Equips automatically') leaves the player with a weapon equipped: afterwards some
\* equipment slot is non-empty, the equipped item is in the inventory, and the attack is
\* higher than before by that weapon's attack effect
C33_TrainingBladeEquips ==
    [][ ( /\ defaults = TemplateDefaults
          /\ history'.op = [name |-> "handle_room_option", owner |-> "armory", index |-> 1]
          /\ armory_room.options[1].label = "Take the training blade" )
        => \E slot \in DOMAIN equipment' :
              /\ equipment'[slot] # None
              /\ Get(inventory', equipment'[slot], 0) >= 1
              /\ stats'.attack
                 = stats.attack + ItemDefinition(equipment'[slot]).effects.attack
      ]_vars

\* the game states one selection away from s: every offered option with every draw its
\* handler may consume, and every inventory entry activated
PlayStep(s) ==
    LET played(h) ==
            CASE h.kind = "room_option" ->
                    LET option == rooms[h.owner].options[h.index]
                    IN  {HandleRoomOption(s, option, rnd) : rnd \in EffectDraws(option)}
              [] h.kind = "battle_action" ->
                    LET action == battles[h.owner].actions[h.index]
                    IN  {ResolveBattleAction(s, action, rnd) :
                            rnd \in BattleDraws(battles[h.owner], action)}
              [] h.kind = "pass_turn" ->
                    {PassTurn(s, [enemy_roll |-> enemy_roll]) : enemy_roll \in EnemyRolls}
              [] h.kind = "continue" -> {ExecutePendingTransition(s)}
              [] OTHER -> {s}
        after == UNION {played(s.option_handlers[i]) : i \in DOMAIN s.option_handlers}
                 \cup {InventoryActivate(s, item_id) : item_id \in DOMAIN s.inventory}
    IN  {[t EXCEPT !.requires_refresh = FALSE, !.history = s.history] : t \in after}

\* the game states some sequence of selections leads to from one of the states S
RECURSIVE Plays(_)
Plays(S) ==
    LET further == S \cup UNION {PlayStep(s) : s \in S}
    IN  IF further = S THEN S ELSE Plays(further)

\* C34: in the template content with the default starting stats there is a sequence of
\* option selections from the start room after which the current room is goblin_victory:
\* the goblin_trial battle can be won in play
C34_GoblinTrialCanBeWon ==
    (defaults = TemplateDefaults /\ history.op.name = "init")
        => \E s \in Plays({State}) : s.current_room_id = "goblin_victory"

\* C35: in every reachable state every key of timed_flags is also a key of flags: no
\* sequence of option effects, battle starts and room transitions leaves a countdown
\* entry for a flag that is not set
C35_TimedFlagsAreSet ==
    \A flag \in DOMAIN timed_flags : flag \in DOMAIN flags

\* C36: if validate passes for a content model, then in every play of it, for any sequence
\* of option selections and any outcome of its battles, no lookup misses: every room id
\* passed to go_to is a room, every battle id started from an option is a battle, and
\* every room entered belongs to the validator's reachable set
C36_ValidatedPlayNeverMisses ==
    (probe.fn = "play" /\ probe.validated)
        => /\ probe.miss = None
           /\ current_room_id \in Visited({probe.content.START_ROOM_ID},
                                          Adjacency(probe.content))
           /\ InBattle(State) => current_battle.spec \in DOMAIN probe.content.battles

\* C36 witness: in a validated content model whose battle names no defeat room, a lost
\* battle has led through Continue to the defeat fallback, the tomb
C36_Witness ==
    /\ probe.fn = "play" /\ probe.validated
    /\ probe.content.battles.goblin.defeat_to = None
    /\ probe.content.DEFEAT_ROOM_ID = "tomb"
    /\ probe.last = "continue" /\ probe.miss = None
    /\ current_room_id = "tomb"

\* C37: when selecting a repeat-limited battle option is refused because its tracker has
\* reached the limit, the selection changes no game state: inventory, flags, timed flags,
\* stats, alert level, equipment and the unique-loot set are as before the selection
C37_RefusedSelectionChangesNothing ==
    [][ ( /\ probe.fn = "handle_room_option" /\ probe.pc = "called"
          /\ probe'.pc = "returned"
          /\ probe.option.battle_id # None
          /\ probe.option.battle_repeat_limit > 0
          /\ Get(battle_repeat_tracker, BattleRepeatKey(State, probe.option), 0)
                >= probe.option.battle_repeat_limit )
        => /\ ~InBattle(State)'
           /\ UNCHANGED << inventory, flags, timed_flags, stats, alert_level, equipment,
                           unique_loot_awards >>
      ]_vars

\* C38: whenever a battle is active and waiting for the player's next action,
\* 1 <= enemy_hp <= spec.enemy.hp: an encounter whose enemy has 0 hp is never left active
C38_ActiveEnemyIsAlive ==
    InBattle(State)
        => /\ 1 <= current_battle.enemy_hp
           /\ current_battle.enemy_hp <= battles[current_battle.spec].enemy.hp

\* C39: in every reachable state with an active battle (its options set, no refresh in
\* progress) at least one offered option is enabled, so the player can always take a
\* turn: a battle never reaches a state in which every displayed action is disabled and
\* no 'Endure' option is offered
C39_SomeBattleOptionEnabled ==
    (InBattle(State) /\ (probe.fn = "refresh_battle_actions" => probe.pc = "returned"))
        => \E i \in DOMAIN option_handlers : option_handlers[i].enabled

\* the sum of the effects of the equipped weapons on one stat
EquippedEffect(stat) ==
    LET effect(slot) == IF equipment[slot] = None THEN 0
                        ELSE Get(ItemDefinition(equipment[slot]).effects, stat, 0)
    IN  effect("melee") + effect("ranged")

\* C40: after any sequence of equip operations (into an empty slot, replacing the weapon
\* of an occupied slot, re-equipping the weapon already in the slot) each slot holds at
\* most one weapon, one that goes to that slot, every equipped weapon id has an inventory
\* count of at least 1, and every stat equals its value with nothing equipped plus the
\* sum of the effects of the weapons currently equipped
C40_EquipmentMatchesStats ==
    probe.fn = "outfit"
        => /\ DOMAIN equipment = {"melee", "ranged"}
           /\ \A slot \in DOMAIN equipment :
                 equipment[slot] # None
                    => /\ Get(inventory, equipment[slot], 0) >= 1
                       /\ IsWeaponDefinition(ItemDefinition(equipment[slot]))
                       /\ WeaponSlot(ItemDefinition(equipment[slot])) = slot
           /\ \A stat \in DOMAIN stats : stats[stat] = probe.base[stat] + EquippedEffect(stat)

\* C40 witness: the ward blade has replaced the club in the melee slot while the bow is
\* held in the other, and a second use of the ward blade was refused
C40_Witness ==
    /\ probe.fn = "outfit"
    /\ equipment = [melee |-> "ward_blade", ranged |-> "wooden_bow"]
    /\ probe.last = [item_id |-> "ward_blade", replaced |-> "ward_blade", equipped |-> FALSE]
    /\ stats.attack = probe.base.attack + 13
    /\ stats.defence = probe.base.defence + 1

====
